---------------------------- MODULE Spec2Model ----------------------------
(***************************************************************************)
(* A model of python_heuristic_detector.py: the PythonHeuristicDetector    *)
(* object (threshold, dangerous flag, last inputs, python-detected flags), *)
(* its two public slots detectPythonInString and detectPythonCodeInJson,   *)
(* and the pure helpers they are built from.                               *)
(*                                                                         *)
(* Text is a sequence of atoms.  An atom stands for a fixed run of         *)
(* characters (a word, a punctuation sign, a white-space character, a      *)
(* line break, the two-character escapes backslash-n and backslash-r).     *)
(* Every helper is computed on the atoms the way the source computes it on *)
(* the characters: the character classes an atom starts and ends with say  *)
(* where the regular expressions' tokens and word boundaries fall.         *)
(***************************************************************************)
EXTENDS Integers, Sequences, FiniteSets, TLC

(***************************************************************************)
(* Atoms and their character-level properties                              *)
(***************************************************************************)

\* White space as str.strip() and the regex class \s see it.
SpaceAtoms == {"SP", "TAB", "LF", "CR"}

\* The line boundaries str.splitlines() knows among the atoms.
LineBreakAtoms == {"LF", "CR"}

\* python_heuristic_detector.py:32
STRONG_PY_KEYWORDS ==
    {"def", "class", "import", "from", "if", "elif", "else", "try", "except",
     "with", "for", "while", "return", "print", "lambda", "yield", "assert",
     "nonlocal", "global", "raise", "async", "await", "pass", "continue", "break"}

\* python_heuristic_detector.py:42
WEAK_PY_KEYWORDS == {"in", "is", "and", "or", "not"}

\* The alternation (def|class|if|...) of the block-starter pattern, line 124.
BlockStarters ==
    {"def", "class", "if", "elif", "else", "try", "except", "with", "for", "while"}

\* Atoms made of letters and underscores only: one run of [A-Za-z_]+ each.
WordAtoms ==
    STRONG_PY_KEYWORDS \cup WEAK_PY_KEYWORDS
      \cup {"hello", "Print", "rm", "function", "eval", "exec"}

\* Atoms that hold letters and other characters: dotted names, "-rf", the
\* escapes backslash-n and backslash-r (a backslash, then a letter).
DottedAtoms ==
    {"os.system", "shutil.rmtree", "subprocess.run", "urllib.request",
     "requests.get", "socket.connect", "pickle.load", "marshal.load"}

\* First character in [A-Za-z_].
StartsAlpha(a) == a \in WordAtoms \cup DottedAtoms \cup {"console."}

\* Last character in [A-Za-z_].
EndsAlpha(a) == a \in WordAtoms \cup DottedAtoms \cup {"-rf", "ESC_N", "ESC_R"}

\* Last character in \w = [A-Za-z0-9_]: "BIG" is a run of digits.
EndsWordChar(a) == EndsAlpha(a) \/ a = "BIG"

\* python_heuristic_detector.py:93
MAX_INPUT_SIZE == 5 * 1024 * 1024

\* Number of characters (all ASCII, so also of UTF-8 bytes) an atom stands for.
AtomLen(a) ==
    CASE a \in SpaceAtoms \cup {"(", ")", ":", "#", "{", "}", ";", "'", "="} -> 1
      [] a \in {"ESC_N", "ESC_R", "rm", "if", "in", "is", "or"} -> 2
      [] a \in {"-rf", "def", "for", "try", "and", "not"} -> 3
      [] a \in {"pass", "eval", "exec", "else", "elif", "from", "with"} -> 4
      [] a \in {"hello", "print", "Print", "class", "while", "raise", "yield",
                "async", "await", "break"} -> 5
      [] a \in {"return", "import", "except", "lambda", "assert", "global"} -> 6
      [] a \in {"function", "console.", "nonlocal", "continue"} -> 8
      [] a = "os.system" -> 9
      [] a = "pickle.load" -> 11
      [] a \in {"requests.get", "marshal.load", "<PythonCode>"} -> 12
      [] a \in {"shutil.rmtree", "</PythonCode>"} -> 13
      [] a \in {"subprocess.run", "urllib.request", "socket.connect"} -> 14
      [] a = "BIG" -> MAX_INPUT_SIZE

\* str.lower() on one atom: only "Print" has an upper-case letter.
LowerAtom(a) == IF a = "Print" THEN "print" ELSE a


(***************************************************************************)
(* String helpers: what the str methods the source calls do on atoms       *)
(***************************************************************************)

Range(s) == {s[i] : i \in 1..Len(s)}

RECURSIVE CharLen(_)
\* len(s), which for ASCII text is also len(s.encode("utf-8")).
CharLen(s) == IF s = <<>> THEN 0 ELSE AtomLen(Head(s)) + CharLen(Tail(s))

RECURSIVE Concat(_)
\* "".join(parts)
Concat(parts) == IF parts = <<>> THEN <<>> ELSE Head(parts) \o Concat(Tail(parts))

RECURSIVE lstrip(_)
lstrip(s) ==
    IF s # <<>> /\ Head(s) \in SpaceAtoms THEN lstrip(Tail(s)) ELSE s

RECURSIVE rstrip(_)
rstrip(s) ==
    IF s # <<>> /\ s[Len(s)] \in SpaceAtoms THEN rstrip(SubSeq(s, 1, Len(s) - 1)) ELSE s

\* str.strip()
strip(s) == rstrip(lstrip(s))

RECURSIVE rstrip_crlf(_)
\* str.rstrip("\r\n")
rstrip_crlf(s) ==
    IF s # <<>> /\ s[Len(s)] \in LineBreakAtoms
    THEN rstrip_crlf(SubSeq(s, 1, Len(s) - 1)) ELSE s

\* str.lower()
lower(s) == [i \in 1..Len(s) |-> LowerAtom(s[i])]

RECURSIVE split_hash(_)
\* s.split("#", 1)[0]: the text before the first '#'
split_hash(s) ==
    IF s = <<>> \/ Head(s) = "#" THEN <<>> ELSE <<Head(s)>> \o split_hash(Tail(s))

RECURSIVE SplitLoop(_, _, _, _)
\* The scan of str.splitlines: LF, CR and the pair CR LF each end a line.
SplitLoop(s, i, cur, keepends) ==
    IF i > Len(s) THEN (IF cur = <<>> THEN <<>> ELSE <<cur>>)
    ELSE IF s[i] = "CR" /\ i < Len(s) /\ s[i + 1] = "LF"
         THEN <<IF keepends THEN cur \o <<"CR", "LF">> ELSE cur>>
                 \o SplitLoop(s, i + 2, <<>>, keepends)
    ELSE IF s[i] \in LineBreakAtoms
         THEN <<IF keepends THEN Append(cur, s[i]) ELSE cur>>
                 \o SplitLoop(s, i + 1, <<>>, keepends)
    ELSE SplitLoop(s, i + 1, Append(cur, s[i]), keepends)

\* str.splitlines(keepends)
splitlines(s, keepends) == SplitLoop(s, 1, <<>>, keepends)

RECURSIVE JoinLF(_)
\* "\n".join(lines)
JoinLF(lines) ==
    IF lines = <<>> THEN <<>>
    ELSE IF Len(lines) = 1 THEN lines[1]
    ELSE lines[1] \o <<"LF">> \o JoinLF(Tail(lines))

RECURSIVE ReplaceAtom(_, _, _)
\* s.replace(old, new) for a one-atom old and a one-atom new
ReplaceAtom(s, old, new) ==
    IF s = <<>> THEN <<>>
    ELSE <<IF Head(s) = old THEN new ELSE Head(s)>> \o ReplaceAtom(Tail(s), old, new)

\* Whether re.findall(r"[A-Za-z_]+", s) holds a strong keyword: a keyword atom
\* with no letter directly before or after it.
HasStrongToken(s) ==
    \E i \in 1..Len(s) :
        /\ s[i] \in STRONG_PY_KEYWORDS
        /\ (i = 1 \/ ~EndsAlpha(s[i - 1]))
        /\ (i = Len(s) \/ ~StartsAlpha(s[i + 1]))

\* "function " in low or "console." in low
LooksLikeJS(low) ==
    \/ \E i \in 1..(Len(low) - 1) : low[i] = "function" /\ low[i + 1] = "SP"
    \/ "console." \in Range(low)

(***************************************************************************)
(* Dangerous patterns                                                      *)
(***************************************************************************)

\* Names the pattern wants followed by \s*\( : os.system, eval, exec, shutil.rmtree
DangerCalls == {"os.system", "eval", "exec", "shutil.rmtree"}

\* Names that match on their own: subprocess.run, urllib.request, requests.x,
\* socket.x, pickle.load, marshal.load
DangerNames ==
    {"subprocess.run", "urllib.request", "requests.get", "socket.connect",
     "pickle.load", "marshal.load"}

RECURSIVE SkipSpaces(_, _)
\* The index \s* leads to from i.
SkipSpaces(s, i) ==
    IF i <= Len(s) /\ s[i] \in SpaceAtoms THEN SkipSpaces(s, i + 1) ELSE i

\* \b before the atom at i
WordBoundaryBefore(s, i) == i = 1 \/ ~EndsWordChar(s[i - 1])

\* _DANGEROUS_REGEX.search(s), the pattern being case-insensitive
DangerousRegexSearch(s) ==
    LET low == lower(s) IN
    \E i \in 1..Len(low) :
        \/ /\ low[i] \in DangerCalls
           /\ WordBoundaryBefore(low, i)
           /\ LET j == SkipSpaces(low, i + 1) IN j <= Len(low) /\ low[j] = "("
        \/ /\ low[i] \in DangerNames
           /\ WordBoundaryBefore(low, i)
        \/ /\ low[i] = "rm"
           /\ i < Len(low)
           /\ low[i + 1] \in SpaceAtoms
           /\ LET j == SkipSpaces(low, i + 1) IN j <= Len(low) /\ low[j] = "-rf"

_contains_dangerous_pattern(s) == DangerousRegexSearch(s)

(***************************************************************************)
(* Helpers: code-likeness, (un)escaping, comment stripping                 *)
(***************************************************************************)

\* re.match(r"^\s*(def|class|...)\b.*:\s*$", stripped) on a stripped line
MatchesBlockStarter(stripped) ==
    /\ Len(stripped) >= 2
    /\ stripped[1] \in BlockStarters
    /\ ~StartsAlpha(stripped[2]) /\ stripped[2] # "BIG"
    /\ stripped[Len(stripped)] = ":"
    /\ Range(stripped) \cap LineBreakAtoms = {}

is_line_code_like(line) ==
    LET stripped0 == strip(line)
        partial   == rstrip(split_hash(stripped0))
        hasHash   == "#" \in Range(stripped0)
        stripped  == IF hasHash THEN partial ELSE stripped0
    IN  IF CharLen(stripped0) < 3 THEN FALSE
        ELSE IF hasHash /\ CharLen(partial) < 3 THEN FALSE
        ELSE IF LooksLikeJS(lower(stripped)) THEN FALSE
        ELSE IF Range(stripped) \cap {"{", "}", ";"} # {} THEN FALSE
        ELSE IF MatchesBlockStarter(stripped) THEN TRUE
        ELSE HasStrongToken(stripped)

strip_comments_from_block(block) ==
    LET src == splitlines(block, FALSE)
        lines == [i \in 1..Len(src) |->
                    LET ln == rstrip_crlf(src[i])
                    IN  IF "#" \in Range(ln) THEN split_hash(ln) ELSE ln]
    IN  JoinLF(lines)

\* s.replace("\\n", "\n").replace("\\r", "\r")
_interpret_escaped_newlines(s) == ReplaceAtom(ReplaceAtom(s, "ESC_N", "LF"), "ESC_R", "CR")

\* s.replace("\r", "\\r").replace("\n", "\\n")
_reescape_newlines(s) == ReplaceAtom(ReplaceAtom(s, "CR", "ESC_R"), "LF", "ESC_N")

might_contain_python_code(s) ==
    LET low == lower(s) IN
    IF LooksLikeJS(low) /\ ~HasStrongToken(low) THEN FALSE
    ELSE HasStrongToken(low)

(***************************************************************************)
(* Confidences are exact rationals [num, den]: the source's floats are     *)
(* means of the integers 0, 80, 100 compared with the threshold.           *)
(***************************************************************************)

RECURSIVE GCD(_, _)
GCD(a, b) == IF b = 0 THEN a ELSE GCD(b, a % b)

\* n / d in lowest terms (d > 0)
Rat(n, d) == LET g == GCD(n, d) IN IF g = 0 THEN [num |-> 0, den |-> 1]
                                   ELSE [num |-> n \div g, den |-> d \div g]

RatAdd(a, b) == Rat(a.num * b.den + b.num * a.den, a.den * b.den)

RECURSIVE RatSum(_)
RatSum(rs) == IF rs = <<>> THEN Rat(0, 1) ELSE RatAdd(Head(rs), RatSum(Tail(rs)))

\* sum(confs) / len(confs) if confs else 0.0
Mean(confs) ==
    IF confs = <<>> THEN Rat(0, 1)
    ELSE LET t == RatSum(confs) IN Rat(t.num, t.den * Len(confs))

\* The comparison turned round.
RatLess_Reversed(r, thr) == r.num > thr * r.den

\* conf > threshold where the source has conf >= threshold.
RatGeq_Strict(r, thr) == r.num > thr * r.den

\* conf < threshold, conf >= threshold
RatLess(r, thr) == r.num < thr * r.den
RatGeq(r, thr) == ~RatLess(r, thr)

(***************************************************************************)
(* PythonHeuristicDetector: internal methods                               *)
(***************************************************************************)

RECURSIVE FormLoop_ClosesAtLine(_, _, _, _)
\* The loop closing a block at the line that ends it, not the one before.
FormLoop_ClosesAtLine(lines, i, in_code_block, block_start) ==
    LET n == Len(lines) IN
    IF i >= n
    THEN (IF in_code_block THEN <<<<block_start, n - 1>>>> ELSE <<>>)
    ELSE LET line == lines[i + 1]
             stripped == strip(line)
         IN  IF in_code_block
             THEN IF \/ is_line_code_like(line)
                     \/ stripped = <<>>
                     \/ (line # <<>> /\ line[1] \in {"SP", "TAB"})
                  THEN FormLoop_ClosesAtLine(lines, i + 1, TRUE, block_start)
                  ELSE <<<<block_start, i>>>>
                         \o FormLoop_ClosesAtLine(lines, i + 1, FALSE, block_start)
             ELSE IF is_line_code_like(line)
                  THEN FormLoop_ClosesAtLine(lines, i + 1, TRUE, i)
                  ELSE FormLoop_ClosesAtLine(lines, i + 1, FALSE, block_start)

RECURSIVE FormLoop_StaysInside(_, _, _, _)
\* The loop without the in_code_block = False of line 293.
FormLoop_StaysInside(lines, i, in_code_block, block_start) ==
    LET n == Len(lines) IN
    IF i >= n
    THEN (IF in_code_block THEN <<<<block_start, n - 1>>>> ELSE <<>>)
    ELSE LET line == lines[i + 1]
             stripped == strip(line)
         IN  IF in_code_block
             THEN IF \/ is_line_code_like(line)
                     \/ stripped = <<>>
                     \/ (line # <<>> /\ line[1] \in {"SP", "TAB"})
                  THEN FormLoop_StaysInside(lines, i + 1, TRUE, block_start)
                  ELSE <<<<block_start, i - 1>>>>
                         \o FormLoop_StaysInside(lines, i + 1, TRUE, block_start)
             ELSE IF is_line_code_like(line)
                  THEN FormLoop_StaysInside(lines, i + 1, TRUE, i)
                  ELSE FormLoop_StaysInside(lines, i + 1, FALSE, block_start)

RECURSIVE FormLoop(_, _, _, _)
\* The for loop of _form_code_blocks from line index i (0-based, as in the
\* source), with the loop's in_code_block and block_start.
FormLoop(lines, i, in_code_block, block_start) ==
    LET n == Len(lines) IN
    IF i >= n
    THEN (IF in_code_block THEN <<<<block_start, n - 1>>>> ELSE <<>>)
    ELSE LET line == lines[i + 1]
             stripped == strip(line)
         IN  IF in_code_block
             THEN IF \/ is_line_code_like(line)
                     \/ stripped = <<>>
                     \/ (line # <<>> /\ line[1] \in {"SP", "TAB"})
                  THEN FormLoop(lines, i + 1, TRUE, block_start)
                  ELSE <<<<block_start, i - 1>>>> \o FormLoop(lines, i + 1, FALSE, block_start)
             ELSE IF is_line_code_like(line)
                  THEN FormLoop(lines, i + 1, TRUE, i)
                  ELSE FormLoop(lines, i + 1, FALSE, block_start)

\* The block ranges (start, end), 0-based and inclusive.
_form_code_blocks(text) == FormLoop(splitlines(text, TRUE), 0, FALSE, 0)

\* [x for x in seq if keep(x)] for the non-blank lines
RECURSIVE NonBlank(_)
NonBlank(lines) ==
    IF lines = <<>> THEN <<>>
    ELSE (IF strip(Head(lines)) # <<>> THEN <<Head(lines)>> ELSE <<>>) \o NonBlank(Tail(lines))

RECURSIVE dedent(_)
\* textwrap.dedent on lines none of which is blank: drop the common leading
\* white space.
dedent(lines) ==
    IF /\ lines # <<>>
       /\ \A i \in 1..Len(lines) : lines[i][1] \in {"SP", "TAB"} /\ lines[i][1] = lines[1][1]
    THEN dedent([i \in 1..Len(lines) |-> Tail(lines[i])])
    ELSE lines

\* Leading white space of a line, in atoms.
Indent(line) == Len(line) - Len(lstrip(line))

\* What the grammar check knows as one statement: a name, a call, an
\* assignment, pass, a return, or a compound statement's header.
IsHeaderLine(c) == MatchesBlockStarter(rstrip(c))
IsStatement(c) ==
    \/ IsHeaderLine(c)
    \/ c \in {<<"pass">>, <<"hello">>, <<"print">>,
              <<"print", "(", "hello", ")">>, <<"hello", "(", ")">>,
              <<"os.system", "(", ")">>, <<"eval", "(", "hello", ")">>,
              <<"import", "SP", "hello">>, <<"return", "SP", "hello">>,
              <<"hello", "SP", "=", "SP", "hello">>}

\* ast.parse(source) raising neither SyntaxError nor IndentationError.  The
\* parser is a library: this is its verdict on the statements the model's
\* texts are made of (one statement a line, bodies indented under headers).
ast_parse_ok(lines) ==
    /\ \A i \in 1..Len(lines) : IsStatement(rstrip(lstrip(lines[i])))
    /\ lines # <<>> => Indent(lines[1]) = 0
    /\ \A i \in 1..Len(lines) :
          IF IsHeaderLine(lstrip(lines[i]))
          THEN i < Len(lines) /\ Indent(lines[i + 1]) > Indent(lines[i])
          ELSE i < Len(lines) => Indent(lines[i + 1]) <= Indent(lines[i])

_calculate_confidence_for_block(block) ==
    LET stripped == strip_comments_from_block(block)
        code_lines == NonBlank(splitlines(stripped, FALSE))
    IN  IF code_lines = <<>> THEN 0
        ELSE IF ast_parse_ok(dedent(code_lines))
             THEN (IF Len(code_lines) = 1 THEN 80 ELSE 100)
             ELSE IF HasStrongToken(stripped)
                  THEN (IF Len(code_lines) = 1 THEN 80 ELSE 100)
                  ELSE 0

\* "".join(lines[a:b]) with Python's 0-based half-open slice
Slice(lines, a, b) == Concat(SubSeq(lines, a + 1, b))

\* last at the head of the loop's k-th round (lines 360, 383)
LastBefore(blocks, k) == IF k = 1 THEN 0 ELSE blocks[k - 1][2] + 1

\* prefix, lines 366-370: the lines between the block before and block k
PrefixOf(lines, blocks, k) ==
    IF blocks[k][1] > LastBefore(blocks, k)
    THEN Slice(lines, LastBefore(blocks, k), blocks[k][1])
    ELSE <<>>

\* block_str, line 373
BlockStr(lines, blocks, k) == Slice(lines, blocks[k][1], blocks[k][2] + 1)

\* A wrap that leaves out the lines after the last block.
TailOf_Dropped(lines, blocks) == <<>>

\* tail, lines 386-390
TailOf(lines, blocks) ==
    IF LastBefore(blocks, Len(blocks) + 1) < Len(lines)
    THEN Slice(lines, LastBefore(blocks, Len(blocks) + 1), Len(lines))
    ELSE <<>>

\* What the k-th round appends to out, lines 366-381
RoundOut(lines, blocks, confs, k, start_tag, end_tag, threshold) ==
    PrefixOf(lines, blocks, k)
      \o (IF RatGeq(Rat(confs[k], 1), threshold)
          THEN start_tag \o BlockStr(lines, blocks, k) \o end_tag
          ELSE BlockStr(lines, blocks, k))

\* The scans of the prefixes, the blocks and the tail, lines 368, 377, 388
PiecewiseDanger(lines, blocks) ==
    \/ \E k \in 1..Len(blocks) : _contains_dangerous_pattern(PrefixOf(lines, blocks, k))
    \/ \E k \in 1..Len(blocks) : _contains_dangerous_pattern(BlockStr(lines, blocks, k))
    \/ _contains_dangerous_pattern(TailOf(lines, blocks))

\* The return without the revert of lines 394-395.
WrapReturn_NoRevert(text, out, avg_conf, did_wrap, danger, threshold) ==
    [text |-> out, conf |-> avg_conf, did_wrap |-> did_wrap, danger |-> danger]

\* Lines 392-397: the revert and the returned triple
WrapReturn(text, out, avg_conf, did_wrap, danger, threshold) ==
    IF did_wrap /\ RatLess(avg_conf, threshold)
    THEN [text |-> text, conf |-> avg_conf, did_wrap |-> FALSE, danger |-> danger]
    ELSE [text |-> out, conf |-> avg_conf, did_wrap |-> did_wrap, danger |-> danger]

\* Lines 356-392 with the confidences of the blocks
WrapScored(text, lines, blocks, confs, start_tag, end_tag, threshold) ==
    WrapReturn(text,
               Concat([k \in 1..Len(blocks) |->
                         RoundOut(lines, blocks, confs, k, start_tag, end_tag, threshold)])
                 \o TailOf(lines, blocks),
               Mean([k \in 1..Len(blocks) |-> Rat(confs[k], 1)]),
               \E k \in 1..Len(blocks) : RatGeq(Rat(confs[k], 1), threshold),
               PiecewiseDanger(lines, blocks),
               threshold)

\* conf of each block, lines 373-375
ScoresOf(lines, blocks) ==
    [k \in 1..Len(blocks) |-> _calculate_confidence_for_block(BlockStr(lines, blocks, k))]

\* Lines 343-397 with the blocks _form_code_blocks found
WrapBlocks(text, lines, blocks, start_tag, end_tag, threshold) ==
    IF blocks = <<>>
    THEN [text |-> text, conf |-> Rat(0, 1), did_wrap |-> FALSE,
          danger |-> _contains_dangerous_pattern(text)]
    ELSE WrapScored(text, lines, blocks, ScoresOf(lines, blocks),
                    start_tag, end_tag, threshold)

\* _wrap_code_blocks_in_text with the threshold it reads at line 352.  The
\* result is the returned triple and `danger`: whether the call set
\* dangerous_code_detected.
_wrap_code_blocks_in_text(text, start_tag, end_tag, threshold) ==
    WrapBlocks(text, splitlines(text, TRUE), _form_code_blocks(text),
               start_tag, end_tag, threshold)

(***************************************************************************)
(* JSON documents                                                          *)
(*                                                                         *)
(* A parsed document is a tree of nodes: [type |-> "str", val |-> atoms],  *)
(* [type |-> "num"] (any other scalar), [type |-> "list", items |-> <<>>], *)
(* [type |-> "dict", keys |-> <<>>, items |-> <<>>].  A serialized         *)
(* document is [tree, compact]: the text json.loads turns into tree,       *)
(* written with the separators of json.dumps (", " and ": ") or with       *)
(* compact ones.  [type |-> "invalid", val |-> atoms] is text json.loads   *)
(* rejects.                                                                *)
(***************************************************************************)

Str(v) == [type |-> "str", val |-> v]
Num == [type |-> "num"]
List(items) == [type |-> "list", items |-> items]
Dict(keys, items) == [type |-> "dict", keys |-> keys, items |-> items]
Invalid(v) == [type |-> "invalid", val |-> v]

IsContainer(node) == node.type \in {"list", "dict"}

\* What json.loads raises on text that is no JSON.
JSONDecodeError == [type |-> "JSONDecodeError"]

\* A parser that accepts any text.
json_loads_Lenient(s) == s.tree

\* json.loads(input_string)
json_loads(s) == IF s.tree.type = "invalid" THEN JSONDecodeError ELSE s.tree

\* json.dumps(new_data, ensure_ascii=False)
json_dumps(tree) == [tree |-> tree, compact |-> FALSE]

\* Characters of a string value inside its quotes: a line break is written
\* as a two-character escape, a backslash is doubled.
RECURSIVE JsonStrLen(_)
JsonStrLen(v) ==
    IF v = <<>> THEN 0
    ELSE (CASE Head(v) \in LineBreakAtoms \cup {"TAB"} -> 2
            [] Head(v) \in {"ESC_N", "ESC_R"} -> 3
            [] OTHER -> AtomLen(Head(v))) + JsonStrLen(Tail(v))

RECURSIVE JsonLen(_, _)
RECURSIVE ItemsLen(_, _, _)
\* The characters of the first k items of a list or dict, with their keys.
ItemsLen(node, k, compact) ==
    IF k = 0 THEN 0
    ELSE ItemsLen(node, k - 1, compact) + JsonLen(node.items[k], compact)
           + (IF node.type = "dict"
              THEN 2 + JsonStrLen(node.keys[k]) + (IF compact THEN 1 ELSE 2)
              ELSE 0)

\* len(input_string.encode("utf-8")) of the serialized tree
JsonLen(node, compact) ==
    LET sep == IF compact THEN 1 ELSE 2
        n == IF IsContainer(node) THEN Len(node.items) ELSE 0
    IN  CASE node.type = "str" -> 2 + JsonStrLen(node.val)
          [] node.type = "num" -> 1
          [] node.type = "invalid" -> CharLen(node.val)
          [] OTHER -> 2 + ItemsLen(node, n, compact) + (IF n > 1 THEN (n - 1) * sep ELSE 0)

\* The guards with twice the cap.
TooLarge_TwiceTheCap(text) == CharLen(text) > 2 * MAX_INPUT_SIZE
TooLargeJson_TwiceTheCap(s) == JsonLen(s.tree, s.compact) > 2 * MAX_INPUT_SIZE

\* len(input_string.encode("utf-8")) > MAX_INPUT_SIZE
TooLarge(text) == CharLen(text) > MAX_INPUT_SIZE
TooLargeJson(s) == JsonLen(s.tree, s.compact) > MAX_INPUT_SIZE

\* detectPythonCodeInJson's default tags
JsonStartTag == <<"<PythonCode>">>
JsonEndTag == <<"</PythonCode>">>

\* detectPythonInString's default tags, "<PythonCode>\n" and "</PythonCode>\n"
TextStartTag == <<"<PythonCode>", "LF">>
TextEndTag == <<"</PythonCode>", "LF">>

\* The quadruple a traversal returns and `danger`: whether it set
\* dangerous_code_detected.
Unchanged(obj) ==
    [obj |-> obj, confs |-> <<>>, did_wrap |-> FALSE, changed |-> FALSE, danger |-> FALSE]

\* _process_string_field, lines 420-427, with what the wrap returned
FieldReturn(original, w, reescaped, pre_danger) ==
    IF w.did_wrap
    THEN [obj |-> reescaped, confs |-> <<w.conf>>, did_wrap |-> TRUE,
          changed |-> (reescaped # original), danger |-> (pre_danger \/ w.danger)]
    ELSE [obj |-> original, confs |-> <<w.conf>>, did_wrap |-> FALSE,
          changed |-> FALSE, danger |-> (pre_danger \/ w.danger)]

\* _process_string_field, lines 420-421
FieldWrapped(original, w, pre_danger) ==
    FieldReturn(original, w, _reescape_newlines(w.text), pre_danger)

\* _process_string_field, lines 413-427, with the unescaped text
FieldUnescaped(original, unescaped, start_tag, end_tag, threshold) ==
    IF ~might_contain_python_code(unescaped) /\ ~_contains_dangerous_pattern(unescaped)
    THEN Unchanged(original)
    ELSE FieldWrapped(original,
                      _wrap_code_blocks_in_text(unescaped, start_tag, end_tag, threshold),
                      _contains_dangerous_pattern(unescaped))

_process_string_field(original, start_tag, end_tag, threshold) ==
    IF CharLen(strip(original)) < 5 THEN Unchanged(original)
    ELSE FieldUnescaped(original, _interpret_escaped_newlines(original),
                        start_tag, end_tag, threshold)

\* The branches with a confidence of 0.0 for a scalar.
ProcessLeaf_ScoresScalars(node, start_tag, end_tag, threshold) ==
    IF node.type = "str"
    THEN LET r == _process_string_field(node.val, start_tag, end_tag, threshold)
         IN  [r EXCEPT !.obj = Str(r.obj)]
    ELSE [Unchanged(node) EXCEPT !.confs = <<Rat(0, 1)>>]

\* The str and scalar branches of _wrap_code_in_json, lines 481-485
ProcessLeaf(node, start_tag, end_tag, threshold) ==
    IF node.type = "str"
    THEN LET r == _process_string_field(node.val, start_tag, end_tag, threshold)
         IN  [r EXCEPT !.obj = Str(r.obj)]
    ELSE Unchanged(node)

RECURSIVE _wrap_code_in_json(_, _, _, _)
\* _wrap_code_in_json run by one thread: the dict branch, the sequential list
\* branch and the leaves (lines 447-455, 471-485).
_wrap_code_in_json(obj, start_tag, end_tag, threshold) ==
    IF ~IsContainer(obj) THEN ProcessLeaf(obj, start_tag, end_tag, threshold)
    ELSE LET rs == [k \in 1..Len(obj.items) |->
                      _wrap_code_in_json(obj.items[k], start_tag, end_tag, threshold)]
         IN  [obj |-> [obj EXCEPT !.items = [k \in 1..Len(rs) |-> rs[k].obj]],
              confs |-> Concat([k \in 1..Len(rs) |-> rs[k].confs]),
              did_wrap |-> \E k \in 1..Len(rs) : rs[k].did_wrap,
              changed |-> \E k \in 1..Len(rs) : rs[k].changed,
              danger |-> \E k \in 1..Len(rs) : rs[k].danger]

\* The ending without the revert of lines 539-542.
JsonOutcome_NoRevert(did_wrap, changed, avg_conf, threshold) ==
    IF ~changed THEN "verbatim" ELSE "dumps"

\* The ending without the early return of lines 545-547.
JsonOutcome_AlwaysDumps(did_wrap, changed, avg_conf, threshold) ==
    IF did_wrap /\ avg_conf.num < threshold * avg_conf.den THEN "revert" ELSE "dumps"

\* The three ways lines 529-550 end: the revert, the input returned verbatim
\* and the new tree serialized.
JsonOutcome(did_wrap, changed, avg_conf, threshold) ==
    IF did_wrap /\ RatLess(avg_conf, threshold) THEN "revert"
    ELSE IF ~changed THEN "verbatim"
    ELSE "dumps"

RECURSIVE NodeAt(_, _)
\* The node a path of child indices leads to.
NodeAt(tree, p) == IF p = <<>> THEN tree ELSE NodeAt(tree.items[Head(p)], Tail(p))

Parent(p) == SubSeq(p, 1, Len(p) - 1)

(***************************************************************************)
(* Inputs                                                                  *)
(***************************************************************************)

\* Texts are made of at most MaxParts parts.
MaxParts == 3

\* Lists of a document hold at most MaxList elements.
MaxList == 3

\* The parts a text is made of (a part is one or two whole lines):
\*   a def with an indented body, a call on a line of its own, prose,
\*   a blank line, prose that calls os.system, a return of an eval call,
\*   and "print rm" followed by the line "-rf".
CodeParts ==
    { <<"def", "SP", "hello", "(", ")", ":", "LF", "SP", "pass", "LF">>,
      <<"print", "(", "hello", ")", "LF">>,
      <<"hello", "SP", "hello", "LF">>,
      <<"LF">>,
      <<"os.system", "(", ")", "LF">>,
      <<"return", "SP", "eval", "(", "hello", ")", "LF">>,
      <<"print", "SP", "rm", "LF", "-rf", "LF">> }

\* A run of MAX_INPUT_SIZE digits: any text that holds it is over the cap.
BigPart == <<"BIG">>

TextParts == CodeParts \cup {BigPart}

RECURSIVE PartSeqs(_)
\* The sequences of at most n parts.
PartSeqs(n) ==
    IF n = 0 THEN {<<>>}
    ELSE LET shorter == PartSeqs(n - 1)
         IN  shorter \cup {Append(q, p) : q \in shorter, p \in TextParts}

\* The input texts of one detectPythonInString call.
Texts == {Concat(q) : q \in PartSeqs(MaxParts)}

\* The input texts of a session of several calls: one part, alone or
\* followed by the oversize run.
SessionTexts == CodeParts \cup {p \o BigPart : p \in CodeParts}

\* String values of documents: the def with real line feeds and with escaped
\* ones, the call, prose, the os.system prose, the eval return, a string under
\* five characters, and a def, prose and a call in one value.
DefString == <<"def", "SP", "hello", "(", ")", ":", "LF", "SP", "pass", "LF">>
DefEscString == <<"def", "SP", "hello", "(", ")", ":", "ESC_N", "SP", "pass", "ESC_N">>
CallString == <<"print", "(", "hello", ")">>
ProseString == <<"hello", "SP", "hello">>
SystemString == <<"os.system", "(", ")">>
EvalString == <<"return", "SP", "eval", "(", "hello", ")">>
ShortString == <<"pass">>
TwoBlockString ==
    DefString \o <<"hello", "SP", "hello", "LF">> \o CallString

JsonStrings ==
    {DefString, DefEscString, CallString, ProseString, SystemString, EvalString,
     ShortString, TwoBlockString}

\* The elements lists and dicts are filled with.
Elems == {Str(DefString), Str(CallString), Str(ProseString), Str(SystemString), Num}

\* The elements of the flat lists.
ListElems == {Str(DefString), Str(CallString), Str(SystemString)}

RECURSIVE ElemSeqs(_)
\* The sequences of at most n list elements.
ElemSeqs(n) ==
    IF n = 0 THEN {<<>>}
    ELSE LET shorter == ElemSeqs(n - 1)
         IN  shorter \cup {Append(q, e) : q \in shorter, e \in ListElems}

\* A key that looks like dangerous code, and a plain one.
CodeKey == <<"eval", "(", "print", ")">>
PlainKey == <<"hello">>

\* The parsed documents of one detectPythonCodeInJson call: a lone string or
\* scalar, a flat list of strings, a scalar and a string in a list, a dict of
\* one or two entries, a list in a list, a list in a dict, and text that is
\* no JSON.
Trees ==
    {Str(v) : v \in JsonStrings \cup {BigPart}} \cup {Num}
      \cup {List(q) : q \in ElemSeqs(MaxList)}
      \cup {List(<<Num, e>>) : e \in Elems}
      \cup {Dict(<<CodeKey>>, <<e>>) : e \in Elems}
      \cup {Dict(<<CodeKey, PlainKey>>, <<d, e>>) : d \in Elems, e \in Elems}
      \cup {List(<<List(<<d, e>>), f>>) :
                d \in Elems, e \in {Str(DefString), Str(CallString)}, f \in {Str(CallString), Num}}
      \cup {Dict(<<PlainKey>>, <<List(<<d, e>>)>>) : d \in Elems, e \in Elems}
      \cup {Invalid(<<"{">>), Invalid(<<"{", "BIG">>)}

JsonInputs == {[tree |-> t, compact |-> c] : t \in Trees, c \in BOOLEAN}

\* The documents of a session of several calls.
SessionTrees ==
    {Str(DefString), Str(CallString), Str(ProseString), Str(SystemString),
     Str(BigPart), List(<<Str(DefString), Str(SystemString)>>),
     List(<<Str(EvalString), Str(BigPart)>>),
     Invalid(<<"{">>), Invalid(<<"{", "BIG">>)}

SessionJsonInputs == {[tree |-> t, compact |-> c] : t \in SessionTrees, c \in BOOLEAN}

\* Lists are nested in lists at most MaxDepth deep.
MaxDepth == 3

RECURSIVE Nest(_, _)
\* n lists of two, each the first element of the one around it, around e.
Nest(n, e) ==
    IF n = 1 THEN List(<<e, Str(CallString)>>)
    ELSE List(<<Nest(n - 1, e), Str(SystemString)>>)

\* The documents of the calls followed lock by lock: lists nested up to
\* MaxDepth deep, deeper than the pool is wide, lists longer than the pool is
\* wide, a dict, a lone string, an oversize one and text that is no JSON.
LockTrees ==
    {Nest(n, e) : n \in 1..MaxDepth, e \in {Str(SystemString), Num}}
      \cup {List([k \in 1..n |-> Str(SystemString)]) : n \in 2..MaxList}
      \cup {Dict(<<CodeKey, PlainKey>>, <<Str(EvalString), List(<<Num, Str(DefString)>>)>>),
            Str(TwoBlockString), Str(BigPart), Invalid(<<"{">>)}

LockJsonInputs == {[tree |-> t, compact |-> FALSE] : t \in LockTrees}

\* The values a caller writes to stat_threshold (the setter clamps them).
ThresholdInputs == {-5, 80, 90, 150}

\* The threshold of a new detector, line 213.
DefaultThreshold == 70

\* The max_workers the detector is constructed with (line 203; default 4).
_max_workers == 2

(***************************************************************************)
(* The detector object and its caller                                      *)
(***************************************************************************)

VARIABLES
    threshold,    \* _stat_threshold
    dangerous,    \* _dangerous_code_detected
    last_json,    \* _last_json_string
    last_plain,   \* _last_plain_string
    py_json,      \* python_detected_in_json
    py_str,       \* python_detected_in_str
    pc,           \* where the caller is: "idle" between public operations
    op,           \* the public operation in progress, or the last one, with
                  \* its input and the flags it found
    wrapres,      \* detectPythonInString's locals wrapped, conf, did_wrap
    started,      \* paths of the list items a pool worker has picked up
    results,      \* for each leaf done: its path and what its call returned
    order,        \* the leaves' paths in the order their calls returned
    ret,          \* how the last operation ended: a returned value or a raise
    emitted,      \* the signals the operation emitted, in order
    mutex,        \* _mutex: the threads that hold it, none or one
    todo,         \* the calls in progress that are followed lock by lock: the
                  \* path of each, the locked sections it has yet to go
                  \* through, and whether it is inside the first of them
    calls         \* for each of two threads that call the detector at the
                  \* same time: where its call is, its input, its locals,
                  \* what it emitted and what it returned

vars == <<threshold, dangerous, last_json, last_plain, py_json, py_str,
          pc, op, wrapres, started, results, order, ret, emitted, mutex, todo,
          calls>>

\* The threads that call the detector at the same time.
Callers == {1, 2}

NoRet == [kind |-> "none"]
NoWrap == [text |-> <<>>, conf |-> Rat(0, 1), did_wrap |-> FALSE, danger |-> FALSE]
NoResults == {}
NoCall == [pc |-> "new", kind |-> "none", input |-> <<>>, res |-> NoWrap,
           sent |-> <<>>, ret |-> NoRet]

\* __init__, lines 203-217
Init ==
    /\ threshold = DefaultThreshold
    /\ dangerous = FALSE
    /\ last_json = <<>>
    /\ last_plain = <<>>
    /\ py_json = FALSE
    /\ py_str = FALSE
    /\ pc = "idle"
    /\ op = [name |-> "init"]
    /\ wrapres = NoWrap
    /\ started = {}
    /\ results = NoResults
    /\ order = <<>>
    /\ ret = NoRet
    /\ emitted = <<>>
    /\ mutex = {}
    /\ todo = {}
    /\ calls = [c \in Callers |-> NoCall]

Max(a, b) == IF a > b THEN a ELSE b
Min(a, b) == IF a < b THEN a ELSE b

\* The clamp without its upper bound.
Clamp_NoUpperBound(value) == Max(0, value)

\* max(0.0, min(100.0, value))
Clamp(value) == Max(0, Min(100, value))

\* The flags and the threshold as a detection call finds them.
Before ==
    [dangerous |-> dangerous, py_json |-> py_json, py_str |-> py_str,
     threshold |-> threshold]

\* What every public operation clears of the caller's bookkeeping.
FreshCall ==
    /\ emitted' = <<>>
    /\ wrapres' = NoWrap
    /\ started' = {}
    /\ results' = NoResults
    /\ order' = <<>>

\* stat_threshold setter, lines 250-257.  The one caller writes it between
\* its detection calls.
SetThreshold(value) ==
    /\ pc = "idle"
    /\ threshold' = Clamp(value)
    /\ op' = [name |-> "set_threshold", input |-> value]
    /\ ret' = NoRet
    /\ FreshCall
    /\ UNCHANGED <<calls, mutex, todo, dangerous, last_json, last_plain, py_json, py_str, pc>>

\* detectPythonInString without the reset of line 568.
TextBegin_NoReset(input_string) ==
    /\ pc = "idle"
    /\ last_plain' = input_string
    /\ op' = [name |-> "text", input |-> input_string, before |-> Before]
    /\ FreshCall
    /\ IF TooLarge(input_string)
       THEN /\ py_str' = FALSE
            /\ ret' = [kind |-> "return", value |-> input_string]
            /\ pc' = "idle"
       ELSE /\ ret' = NoRet
            /\ pc' = "text_wrap"
            /\ UNCHANGED py_str
    /\ UNCHANGED <<calls, mutex, todo, threshold, dangerous, last_json, py_json>>

\* detectPythonInString, lines 567-574: the reset under the lock and the
\* size guard.
TextBegin(input_string) ==
    /\ pc = "idle"
    /\ dangerous' = FALSE
    /\ last_plain' = input_string
    /\ op' = [name |-> "text", input |-> input_string, before |-> Before]
    /\ FreshCall
    /\ IF TooLarge(input_string)
       THEN /\ py_str' = FALSE
            /\ ret' = [kind |-> "return", value |-> input_string]
            /\ pc' = "idle"
       ELSE /\ ret' = NoRet
            /\ pc' = "text_wrap"
            /\ UNCHANGED py_str
    /\ UNCHANGED <<calls, mutex, todo, threshold, last_json, py_json>>

\* detectPythonInString, line 576
TextWrap ==
    /\ pc = "text_wrap"
    /\ LET r == _wrap_code_blocks_in_text(op.input, TextStartTag, TextEndTag, threshold)
       IN  /\ wrapres' = r
           /\ dangerous' = (dangerous \/ r.danger)
    /\ pc' = "text_decide"
    /\ UNCHANGED <<calls, mutex, todo, threshold, last_json, last_plain, py_json, py_str, op,
                   started, results, order, ret, emitted>>

\* detectPythonInString, lines 578-600
TextDecide ==
    /\ pc = "text_decide"
    /\ IF wrapres.did_wrap /\ RatLess(wrapres.conf, threshold)
       THEN /\ emitted' = Append(emitted, [signal |-> "stat_str_too_low_signal",
                                           arg |-> last_plain])
            /\ py_str' = FALSE
            /\ ret' = [kind |-> "return", value |-> last_plain]
            /\ UNCHANGED dangerous
       ELSE IF ~wrapres.did_wrap
       THEN /\ dangerous' = (dangerous \/ _contains_dangerous_pattern(op.input))
            /\ py_str' = FALSE
            /\ ret' = [kind |-> "return", value |-> op.input]
            /\ UNCHANGED emitted
       ELSE /\ py_str' = TRUE
            /\ ret' = [kind |-> "return", value |-> wrapres.text]
            /\ UNCHANGED <<dangerous, emitted>>
    /\ pc' = "idle"
    /\ UNCHANGED <<calls, mutex, todo, threshold, last_json, last_plain, py_json, op, wrapres,
                   started, results, order>>

(***************************************************************************)
(* detectPythonCodeInJson.  The traversal is one step for each leaf call   *)
(* and one for each item a pool worker picks up; a dict and a list         *)
(* traversed by its own thread take their children in order, a list of     *)
(* more than one item traversed with parallel = True hands them to a pool  *)
(* of _max_workers threads.                                                *)
(***************************************************************************)

\* data, line 518
Tree == json_loads(op.input)

RECURSIVE PathsOf(_, _)
\* The paths of all nodes of the tree under the node at p.
PathsOf(node, p) ==
    {p} \cup (IF IsContainer(node)
              THEN UNION {PathsOf(node.items[k], Append(p, k)) : k \in 1..Len(node.items)}
              ELSE {})

\* parallel and len(obj) > 1, line 458
IsPool(node) == node.type = "list" /\ op.parallel /\ Len(node.items) > 1

\* The leaf call at p has returned, and what it returned.
Returned(p) == \E x \in results : x.path = p
ResultAt(p) == (CHOOSE x \in results : x.path = p).res

RECURSIVE Complete(_, _)
\* The call on the node at p has returned: all the leaves under it have.
Complete(node, p) ==
    IF IsContainer(node)
    THEN \A k \in 1..Len(node.items) : Complete(node.items[k], Append(p, k))
    ELSE Returned(p)

RECURSIVE Active(_)
\* A thread is inside the call on the node at p.
Active(p) ==
    IF p = <<>> THEN TRUE
    ELSE LET par == Parent(p)
             pn == NodeAt(Tree, par)
         IN  /\ Active(par)
             /\ IF IsPool(pn)
                THEN p \in started
                ELSE \A j \in 1..(p[Len(p)] - 1) : Complete(pn.items[j], Append(par, j))

\* One pool for the whole call: a worker is busy from the item it picked up
\* until that item's call returns, whichever list the item is in.
PoolStart_OnePool(p, i) ==
    /\ pc = "json_traverse"
    /\ LET node == NodeAt(Tree, p)
           busy == {q \in started : ~Complete(NodeAt(Tree, q), q)}
       IN  /\ IsPool(node)
           /\ Active(p)
           /\ i \in 1..Len(node.items)
           /\ Append(p, i) \notin started
           /\ \A j \in 1..(i - 1) : Append(p, j) \in started
           /\ Cardinality(busy) < _max_workers
    /\ started' = started \cup {Append(p, i)}
    /\ UNCHANGED <<calls, mutex, todo, threshold, dangerous, last_json, last_plain, py_json, py_str,
                   pc, op, wrapres, results, order, ret, emitted>>

\* pool.map, lines 459-463: a free worker of the list's pool takes the next
\* item of the queue.
PoolStart(p, i) ==
    /\ pc = "json_traverse"
    /\ LET node == NodeAt(Tree, p)
           busy == {j \in 1..Len(node.items) :
                      /\ Append(p, j) \in started
                      /\ ~Complete(node.items[j], Append(p, j))}
       IN  /\ IsPool(node)
           /\ Active(p)
           /\ i \in 1..Len(node.items)
           /\ Append(p, i) \notin started
           /\ \A j \in 1..(i - 1) : Append(p, j) \in started
           /\ Cardinality(busy) < _max_workers
    /\ started' = started \cup {Append(p, i)}
    /\ UNCHANGED <<calls, mutex, todo, threshold, dangerous, last_json, last_plain, py_json, py_str,
                   pc, op, wrapres, results, order, ret, emitted>>

\* A leaf call that stores its verdict in the flag, true or false.
LeafCall_Overwrite(p) ==
    /\ pc = "json_traverse"
    /\ ~IsContainer(NodeAt(Tree, p))
    /\ Active(p)
    /\ ~Returned(p)
    /\ LET r == ProcessLeaf(NodeAt(Tree, p), JsonStartTag, JsonEndTag, threshold)
       IN  /\ results' = results \cup {[path |-> p, res |-> r]}
           /\ dangerous' = r.danger
    /\ order' = Append(order, p)
    /\ UNCHANGED <<calls, mutex, todo, threshold, last_json, last_plain, py_json, py_str,
                   pc, op, wrapres, started, ret, emitted>>

\* _wrap_code_in_json on a string or a scalar, lines 481-485
LeafCall(p) ==
    /\ pc = "json_traverse"
    /\ ~IsContainer(NodeAt(Tree, p))
    /\ Active(p)
    /\ ~Returned(p)
    /\ LET r == ProcessLeaf(NodeAt(Tree, p), JsonStartTag, JsonEndTag, threshold)
       IN  /\ results' = results \cup {[path |-> p, res |-> r]}
           /\ dangerous' = (dangerous \/ r.danger)
    /\ order' = Append(order, p)
    /\ UNCHANGED <<calls, mutex, todo, threshold, last_json, last_plain, py_json, py_str,
                   pc, op, wrapres, started, ret, emitted>>

\* When the call on child j of the list at p returned: the place in `order`
\* of the last leaf under it.
FinishTime(p, j) ==
    LET c == Append(p, j)
        ts == {t \in 1..Len(order) :
                 Len(order[t]) >= Len(c) /\ SubSeq(order[t], 1, Len(c)) = c}
    IN  IF ts = {} THEN 0 ELSE CHOOSE t \in ts : \A u \in ts : u <= t

\* The children of the list at p in the order their calls returned.
completion_order(p, n) ==
    LET before(i, j) ==
            \/ FinishTime(p, i) < FinishTime(p, j)
            \/ FinishTime(p, i) = FinishTime(p, j) /\ i < j
        rank(j) == 1 + Cardinality({i \in 1..n : before(i, j)})
    IN  [k \in 1..n |-> CHOOSE j \in 1..n : rank(j) = k]

\* list(pool.map(...)), line 460: the results come in the order of obj.
pool_map_order(p, n) == [k \in 1..n |-> k]

RECURSIVE Merge_ConfsAsCompleted(_, _)
\* A merge that collects the confidences of a pool's items as their calls
\* return.
Merge_ConfsAsCompleted(node, p) ==
    IF ~IsContainer(node) THEN ResultAt(p)
    ELSE LET n == Len(node.items)
             done == IF IsPool(node) THEN completion_order(p, n) ELSE [k \in 1..n |-> k]
             rs == [k \in 1..n |-> Merge_ConfsAsCompleted(node.items[k], Append(p, k))]
         IN  [obj |-> [node EXCEPT !.items = [k \in 1..n |-> rs[k].obj]],
              confs |-> Concat([k \in 1..n |-> rs[done[k]].confs]),
              did_wrap |-> \E k \in 1..n : rs[k].did_wrap,
              changed |-> \E k \in 1..n : rs[k].changed,
              danger |-> \E k \in 1..n : rs[k].danger]

RECURSIVE Merge(_, _)
\* What the call on the node at p returns once the calls under it have:
\* lines 448-455, 464-470 and 472-479.
Merge(node, p) ==
    IF ~IsContainer(node) THEN ResultAt(p)
    ELSE LET n == Len(node.items)
             idx == IF IsPool(node) THEN pool_map_order(p, n) ELSE [k \in 1..n |-> k]
             rs == [k \in 1..n |-> Merge(node.items[idx[k]], Append(p, idx[k]))]
         IN  [obj |-> [node EXCEPT !.items = [k \in 1..n |-> rs[k].obj]],
              confs |-> Concat([k \in 1..n |-> rs[k].confs]),
              did_wrap |-> \E k \in 1..n : rs[k].did_wrap,
              changed |-> \E k \in 1..n : rs[k].changed,
              danger |-> \E k \in 1..n : rs[k].danger]

\* detectPythonCodeInJson, lines 508-522: the reset under the lock, the size
\* guard and json.loads.
JsonBegin(input_string, parallel) ==
    /\ pc = "idle"
    /\ dangerous' = FALSE
    /\ last_json' = input_string
    /\ op' = [name |-> "json", input |-> input_string, parallel |-> parallel,
               before |-> Before]
    /\ FreshCall
    /\ IF TooLargeJson(input_string)
       THEN /\ py_json' = FALSE
            /\ ret' = [kind |-> "return", value |-> input_string]
            /\ pc' = "idle"
       ELSE IF json_loads(input_string) = JSONDecodeError
       THEN /\ ret' = [kind |-> "raise", value |-> JSONDecodeError]
            /\ pc' = "idle"
            /\ UNCHANGED py_json
       ELSE /\ ret' = NoRet
            /\ pc' = "json_traverse"
            /\ UNCHANGED py_json
    /\ UNCHANGED <<calls, mutex, todo, threshold, last_plain, py_str>>

\* detectPythonCodeInJson, lines 524-550, with what the traversal returned
JsonFinish(m, outcome) ==
    /\ emitted' = IF outcome = "revert"
                  THEN Append(emitted, [signal |-> "stat_json_too_low_signal",
                                        arg |-> last_json])
                  ELSE emitted
    /\ py_json' = (outcome = "dumps")
    /\ ret' = [kind |-> "return",
               value |-> CASE outcome = "revert" -> last_json
                           [] outcome = "verbatim" -> op.input
                           [] OTHER -> json_dumps(m.obj)]

\* detectPythonCodeInJson, lines 524-550
JsonDecide ==
    /\ pc = "json_traverse"
    /\ Complete(Tree, <<>>)
    /\ \E m \in {Merge(Tree, <<>>)} :
          JsonFinish(m, JsonOutcome(m.did_wrap, m.changed, Mean(m.confs), threshold))
    /\ pc' = "idle"
    /\ UNCHANGED <<calls, mutex, todo, threshold, dangerous, last_json, last_plain, py_str, op,
                   wrapres, started, results, order>>

\* The nodes of the document being traversed.
Paths == IF pc = "json_traverse" THEN PathsOf(Tree, <<>>) ELSE {}

(***************************************************************************)
(* The same two calls followed lock by lock.  Every `with QMutexLocker` of *)
(* the source is two steps, Lock and Unlock, with the section's field      *)
(* access at the Unlock; a thread is named by the path of the list item    *)
(* its pool worker picked up, the caller's thread by the empty path.       *)
(***************************************************************************)

Unit(p, secs) == [path |-> p, secs |-> secs, held |-> FALSE]

\* The caller's thread has left the last locked section of its stage.
MainDone == Unit(<<>>, <<>>) \in todo

RECURSIVE ThreadOf(_)
\* The thread that runs the call on the node at p: the worker that picked up
\* the nearest pool item above it, or the caller's.
ThreadOf(p) ==
    IF p = <<>> THEN <<>>
    ELSE IF IsPool(NodeAt(Tree, Parent(p))) THEN p
    ELSE ThreadOf(Parent(p))

\* self.dangerous_code_detected = True after a scan, lines 348, 365, 374,
\* 388, 418, 595: the setter's locked section when the scan finds a pattern.
SetIf(piece) == IF _contains_dangerous_pattern(piece) THEN <<"set">> ELSE <<>>

\* The locked sections of _wrap_code_blocks_in_text in the order it goes
\* through them: lines 346-389.
WrapSectionsOf(text, lines, blocks) ==
    IF blocks = <<>> THEN SetIf(text)
    ELSE <<"read">>
           \o Concat([k \in 1..Len(blocks) |->
                        SetIf(PrefixOf(lines, blocks, k)) \o SetIf(BlockStr(lines, blocks, k))])
           \o SetIf(TailOf(lines, blocks))

WrapSections(text) == WrapSectionsOf(text, splitlines(text, TRUE), _form_code_blocks(text))

\* The locked sections of _process_string_field, lines 410-420
FieldSectionsOf(unescaped) ==
    IF ~might_contain_python_code(unescaped) /\ ~_contains_dangerous_pattern(unescaped)
    THEN <<>>
    ELSE SetIf(unescaped) \o WrapSections(unescaped)

FieldSections(original) ==
    IF CharLen(strip(original)) < 5 THEN <<>>
    ELSE FieldSectionsOf(_interpret_escaped_newlines(original))

\* The locked sections of a leaf call, lines 481-485
LeafSections(node) == IF node.type = "str" THEN FieldSections(node.val) ELSE <<>>

\* What the scans of a text call find: the locked sections
\* _wrap_code_blocks_in_text goes through and what it returns.  The input
\* and the threshold settle both, and the call's steps read them from here
\* at the place the code computes them.
TextPlan(text, thr) ==
    [secs |-> WrapSections(text),
     res |-> _wrap_code_blocks_in_text(text, TextStartTag, TextEndTag, thr)]

\* The same for each string and scalar of a document.
LeafPlans(tree, thr) ==
    {[path |-> p,
      secs |-> LeafSections(NodeAt(tree, p)),
      res |-> ProcessLeaf(NodeAt(tree, p), JsonStartTag, JsonEndTag, thr)] :
       p \in {q \in PathsOf(tree, <<>>) : ~IsContainer(NodeAt(tree, q))}}

\* What the traversal returns once every leaf call has, the results merged
\* in the order of the document (lines 448-479), and how lines 529-550 end.
EndPlan(m, thr) ==
    [m |-> m, outcome |-> JsonOutcome(m.did_wrap, m.changed, Mean(m.confs), thr)]

JsonPlan(tree, thr) ==
    [leaves |-> LeafPlans(tree, thr),
     end |-> EndPlan(_wrap_code_in_json(tree, JsonStartTag, JsonEndTag, thr), thr)]

LeafPlan(p) == CHOOSE e \in op.plan.leaves : e.path = p

\* QMutexLocker(self._mutex), entering: the thread waits until the mutex is
\* free and takes it.
Lock(x) ==
    /\ x \in todo
    /\ ~x.held
    /\ x.secs # <<>>
    /\ mutex = {}
    /\ mutex' = {ThreadOf(x.path)}
    /\ todo' = (todo \ {x}) \cup {[x EXCEPT !.held = TRUE]}
    /\ UNCHANGED <<calls, threshold, dangerous, last_json, last_plain, py_json, py_str,
                   pc, op, wrapres, started, results, order, ret, emitted>>

\* The body of the locked section and the end of the `with`: the resets of
\* lines 509-510 and 568-569, the reads of lines 352, 530 and 579, the
\* setter's assignment of line 238.
Unlock(x) ==
    /\ x \in todo
    /\ x.held
    /\ dangerous' = (CASE Head(x.secs) = "set" -> TRUE
                       [] Head(x.secs) \in {"reset_text", "reset_json"} -> FALSE
                       [] OTHER -> dangerous)
    /\ last_plain' = (IF Head(x.secs) = "reset_text" THEN op.input ELSE last_plain)
    /\ last_json' = (IF Head(x.secs) = "reset_json" THEN op.input ELSE last_json)
    /\ mutex' = {}
    /\ todo' = (todo \ {x}) \cup {Unit(x.path, Tail(x.secs))}
    /\ UNCHANGED <<calls, threshold, py_json, py_str, pc, op, wrapres, started, results,
                   order, ret, emitted>>

\* detectPythonInString is called, line 567
TextEnter(input_string) ==
    /\ pc = "idle"
    /\ pc' = "text_reset"
    /\ op' = [name |-> "text", input |-> input_string, before |-> Before,
               plan |-> TextPlan(input_string, threshold)]
    /\ FreshCall
    /\ ret' = NoRet
    /\ todo' = {Unit(<<>>, <<"reset_text">>)}
    /\ UNCHANGED <<calls, threshold, dangerous, last_json, last_plain, py_json, py_str, mutex>>

\* detectPythonInString, lines 571-576: the size guard, and into
\* _wrap_code_blocks_in_text
TextGuard ==
    /\ pc = "text_reset"
    /\ MainDone
    /\ IF TooLarge(op.input)
       THEN /\ py_str' = FALSE
            /\ ret' = [kind |-> "return", value |-> op.input]
            /\ pc' = "idle"
            /\ todo' = {}
       ELSE /\ pc' = "text_scan"
            /\ todo' = {Unit(<<>>, op.plan.secs)}
            /\ UNCHANGED <<py_str, ret>>
    /\ UNCHANGED <<calls, threshold, dangerous, last_json, last_plain, py_json, op,
                   wrapres, started, results, order, emitted, mutex>>

\* detectPythonInString, lines 576-578: _wrap_code_blocks_in_text returns
TextWrapped ==
    /\ pc = "text_scan"
    /\ MainDone
    /\ wrapres' = op.plan.res
    /\ pc' = "text_read"
    /\ todo' = {Unit(<<>>, <<"read">>)}
    /\ UNCHANGED <<calls, threshold, dangerous, last_json, last_plain, py_json, py_str,
                   op, started, results, order, ret, emitted, mutex>>

\* detectPythonInString, lines 587-595: towards the branch that scans the
\* whole input
TextBranch ==
    /\ pc = "text_read"
    /\ MainDone
    /\ pc' = "text_decide"
    /\ todo' = {Unit(<<>>, IF ~wrapres.did_wrap THEN SetIf(op.input) ELSE <<>>)}
    /\ UNCHANGED <<calls, threshold, dangerous, last_json, last_plain, py_json, py_str,
                   op, wrapres, started, results, order, ret, emitted, mutex>>

\* detectPythonCodeInJson is called, line 508
JsonEnter(input_string, parallel) ==
    /\ pc = "idle"
    /\ pc' = "json_reset"
    /\ op' = [name |-> "json", input |-> input_string, parallel |-> parallel,
               before |-> Before,
               plan |-> IF json_loads(input_string) = JSONDecodeError
                        THEN [leaves |-> {}]
                        ELSE JsonPlan(json_loads(input_string), threshold)]
    /\ FreshCall
    /\ ret' = NoRet
    /\ todo' = {Unit(<<>>, <<"reset_json">>)}
    /\ UNCHANGED <<calls, threshold, dangerous, last_json, last_plain, py_json, py_str, mutex>>

\* detectPythonCodeInJson, lines 512-522: the size guard and json.loads
JsonGuard ==
    /\ pc = "json_reset"
    /\ MainDone
    /\ IF TooLargeJson(op.input)
       THEN /\ py_json' = FALSE
            /\ ret' = [kind |-> "return", value |-> op.input]
            /\ pc' = "idle"
       ELSE IF json_loads(op.input) = JSONDecodeError
       THEN /\ ret' = [kind |-> "raise", value |-> JSONDecodeError]
            /\ pc' = "idle"
            /\ UNCHANGED py_json
       ELSE /\ pc' = "json_traverse"
            /\ UNCHANGED <<py_json, ret>>
    /\ todo' = {}
    /\ UNCHANGED <<calls, threshold, dangerous, last_json, last_plain, py_str, op,
                   wrapres, started, results, order, emitted, mutex>>

\* _wrap_code_in_json is called on a string or a scalar, line 481
LeafEnter(p) ==
    /\ pc = "json_traverse"
    /\ ~IsContainer(NodeAt(Tree, p))
    /\ Active(p)
    /\ ~Returned(p)
    /\ \A x \in todo : x.path # p
    /\ todo' = todo \cup {Unit(p, LeafPlan(p).secs)}
    /\ UNCHANGED <<calls, threshold, dangerous, last_json, last_plain, py_json, py_str,
                   pc, op, wrapres, started, results, order, ret, emitted, mutex>>

\* and returns, lines 482 and 485
LeafReturn(p) ==
    /\ pc = "json_traverse"
    /\ ~IsContainer(NodeAt(Tree, p))
    /\ Unit(p, <<>>) \in todo
    /\ ~Returned(p)
    /\ results' = results \cup {[path |-> p, res |-> LeafPlan(p).res]}
    /\ order' = Append(order, p)
    /\ todo' = todo \ {Unit(p, <<>>)}
    /\ UNCHANGED <<calls, threshold, dangerous, last_json, last_plain, py_json, py_str,
                   pc, op, wrapres, started, ret, emitted, mutex>>

\* detectPythonCodeInJson, lines 524-529: the traversal has returned
JsonJoin ==
    /\ pc = "json_traverse"
    /\ Complete(Tree, <<>>)
    /\ todo = {}
    /\ todo' = {Unit(<<>>, <<"read">>)}
    /\ UNCHANGED <<calls, threshold, dangerous, last_json, last_plain, py_json, py_str,
                   pc, op, wrapres, started, results, order, ret, emitted, mutex>>

\* detectPythonCodeInJson, lines 530-550
JsonReturn ==
    /\ pc = "json_traverse"
    /\ MainDone
    /\ Complete(Tree, <<>>)
    /\ JsonFinish(op.plan.end.m, op.plan.end.outcome)
    /\ pc' = "idle"
    /\ UNCHANGED <<calls, threshold, dangerous, last_json, last_plain, py_str, op,
                   wrapres, started, results, order, mutex, todo>>

(***************************************************************************)
(* Two threads that call the slots of one detector at the same time.  Each *)
(* makes one call, with parallel = False.  A step of a call is a locked    *)
(* section, or a stretch of the slot between two accesses to the fields    *)
(* the calls share.                                                        *)
(***************************************************************************)

\* The variables of the caller that calls alone.
OneCaller == <<pc, op, wrapres, started, results, order, ret, mutex, todo>>

\* The two calls are given different inputs: no other call of the slot has
\* this one.
OtherInput(c, slot, input_string) ==
    \A d \in Callers \ {c} :
        IF calls[d].kind = slot THEN calls[d].input # input_string ELSE TRUE

\* detectPythonCodeInJson, lines 508-510: the reset and the store of the
\* input, under the lock
CallJsonEnter(c, input_string) ==
    /\ calls[c].pc = "new"
    /\ OtherInput(c, "json", input_string)
    /\ dangerous' = FALSE
    /\ last_json' = input_string
    /\ calls' = [calls EXCEPT ![c] = [NoCall EXCEPT !.pc = "entered", !.kind = "json",
                                                     !.input = input_string]]
    /\ UNCHANGED <<threshold, last_plain, py_json, py_str, emitted, OneCaller>>

\* detectPythonCodeInJson, lines 512-527: the size guard, json.loads and the
\* traversal by the caller's thread
CallJsonTraverse(c) ==
    /\ calls[c].pc = "entered"
    /\ calls[c].kind = "json"
    /\ IF TooLargeJson(calls[c].input)
       THEN /\ py_json' = FALSE
            /\ calls' = [calls EXCEPT ![c].pc = "done",
                                      ![c].ret = [kind |-> "return", value |-> calls[c].input]]
            /\ UNCHANGED dangerous
       ELSE IF json_loads(calls[c].input) = JSONDecodeError
       THEN /\ calls' = [calls EXCEPT ![c].pc = "done",
                                      ![c].ret = [kind |-> "raise", value |-> JSONDecodeError]]
            /\ UNCHANGED <<py_json, dangerous>>
       ELSE /\ \E r \in {_wrap_code_in_json(json_loads(calls[c].input),
                                            JsonStartTag, JsonEndTag, threshold)} :
                  /\ calls' = [calls EXCEPT ![c].pc = "decide", ![c].res = r]
                  /\ dangerous' = (dangerous \/ r.danger)
            /\ UNCHANGED py_json
    /\ UNCHANGED <<threshold, last_json, last_plain, py_str, emitted, OneCaller>>

\* detectPythonCodeInJson, lines 529-550, up to the emit of line 540
CallJsonDecide(c) ==
    /\ calls[c].pc = "decide"
    /\ calls[c].kind = "json"
    /\ \E outcome \in {JsonOutcome(calls[c].res.did_wrap, calls[c].res.changed,
                                   Mean(calls[c].res.confs), threshold)} :
          IF outcome = "revert"
          THEN /\ emitted' = Append(emitted, [signal |-> "stat_json_too_low_signal",
                                              arg |-> last_json])
               /\ calls' = [calls EXCEPT ![c].pc = "reverting",
                                         ![c].sent = Append(calls[c].sent, last_json)]
               /\ UNCHANGED py_json
          ELSE /\ py_json' = (outcome = "dumps")
               /\ calls' = [calls EXCEPT
                              ![c].pc = "done",
                              ![c].ret = [kind |-> "return",
                                          value |-> IF outcome = "dumps"
                                                    THEN json_dumps(calls[c].res.obj)
                                                    ELSE calls[c].input]]
               /\ UNCHANGED emitted
    /\ UNCHANGED <<threshold, dangerous, last_json, last_plain, py_str, OneCaller>>

\* detectPythonInString, lines 567-569: the reset and the store of the input,
\* under the lock
CallTextEnter(c, input_string) ==
    /\ calls[c].pc = "new"
    /\ OtherInput(c, "text", input_string)
    /\ dangerous' = FALSE
    /\ last_plain' = input_string
    /\ calls' = [calls EXCEPT ![c] = [NoCall EXCEPT !.pc = "entered", !.kind = "text",
                                                     !.input = input_string]]
    /\ UNCHANGED <<threshold, last_json, py_json, py_str, emitted, OneCaller>>

\* detectPythonInString, lines 571-576: the size guard and the wrap
CallTextWrap(c) ==
    /\ calls[c].pc = "entered"
    /\ calls[c].kind = "text"
    /\ IF TooLarge(calls[c].input)
       THEN /\ py_str' = FALSE
            /\ calls' = [calls EXCEPT ![c].pc = "done",
                                      ![c].ret = [kind |-> "return", value |-> calls[c].input]]
            /\ UNCHANGED dangerous
       ELSE /\ \E r \in {_wrap_code_blocks_in_text(calls[c].input, TextStartTag,
                                                   TextEndTag, threshold)} :
                  /\ calls' = [calls EXCEPT ![c].pc = "decide", ![c].res = r]
                  /\ dangerous' = (dangerous \/ r.danger)
            /\ UNCHANGED py_str
    /\ UNCHANGED <<threshold, last_json, last_plain, py_json, emitted, OneCaller>>

\* detectPythonInString, lines 578-600, up to the emit of line 588
CallTextDecide(c) ==
    /\ calls[c].pc = "decide"
    /\ calls[c].kind = "text"
    /\ IF calls[c].res.did_wrap /\ RatLess(calls[c].res.conf, threshold)
       THEN /\ emitted' = Append(emitted, [signal |-> "stat_str_too_low_signal",
                                           arg |-> last_plain])
            /\ calls' = [calls EXCEPT ![c].pc = "reverting",
                                      ![c].sent = Append(calls[c].sent, last_plain)]
            /\ UNCHANGED <<py_str, dangerous>>
       ELSE IF ~calls[c].res.did_wrap
       THEN /\ dangerous' = (dangerous \/ _contains_dangerous_pattern(calls[c].input))
            /\ py_str' = FALSE
            /\ calls' = [calls EXCEPT ![c].pc = "done",
                                      ![c].ret = [kind |-> "return", value |-> calls[c].input]]
            /\ UNCHANGED emitted
       ELSE /\ py_str' = TRUE
            /\ calls' = [calls EXCEPT ![c].pc = "done",
                                      ![c].ret = [kind |-> "return",
                                                  value |-> calls[c].res.text]]
            /\ UNCHANGED <<dangerous, emitted>>
    /\ UNCHANGED <<threshold, last_json, last_plain, py_json, OneCaller>>

\* Lines 541-542 and 589-590: after the emit, the flag and the return of the
\* field that holds the last input
CallRevertReturn(c) ==
    /\ calls[c].pc = "reverting"
    /\ IF calls[c].kind = "json"
       THEN /\ py_json' = FALSE
            /\ calls' = [calls EXCEPT ![c].pc = "done",
                                      ![c].ret = [kind |-> "return", value |-> last_json]]
            /\ UNCHANGED py_str
       ELSE /\ py_str' = FALSE
            /\ calls' = [calls EXCEPT ![c].pc = "done",
                                      ![c].ret = [kind |-> "return", value |-> last_plain]]
            /\ UNCHANGED py_json
    /\ UNCHANGED <<threshold, dangerous, last_json, last_plain, emitted, OneCaller>>

(***************************************************************************)
(* Specifications                                                          *)
(***************************************************************************)

\* A session: any number of public operations, one after the other.
Next ==
    \/ \E v \in ThresholdInputs : SetThreshold(v)
    \/ \E t \in SessionTexts : TextBegin(t)
    \/ TextWrap
    \/ TextDecide
    \/ \E s \in SessionJsonInputs, parallel \in BOOLEAN : JsonBegin(s, parallel)
    \/ \E p \in Paths, i \in 1..MaxList : PoolStart(p, i)
    \/ \E p \in Paths : LeafCall(p)
    \/ JsonDecide

Spec == Init /\ [][Next]_vars

\* The first operation on the detector, and the first after it.
First == op.name = "init"
NoCallYet == op.name \in {"init", "set_threshold"}

\* One detectPythonInString call on a new detector, the threshold left at
\* its default or written once before.
NextTextCall ==
    \/ First /\ \E v \in ThresholdInputs : SetThreshold(v)
    \/ NoCallYet /\ \E t \in Texts : TextBegin(t)
    \/ TextWrap
    \/ TextDecide

SpecTextCall == Init /\ [][NextTextCall]_vars

\* One detectPythonCodeInJson call on a new detector, likewise.
NextJsonCall ==
    \/ First /\ \E v \in ThresholdInputs : SetThreshold(v)
    \/ NoCallYet /\ \E s \in JsonInputs, parallel \in BOOLEAN : JsonBegin(s, parallel)
    \/ \E p \in Paths, i \in 1..MaxList : PoolStart(p, i)
    \/ \E p \in Paths : LeafCall(p)
    \/ JsonDecide

SpecJsonCall == Init /\ [][NextJsonCall]_vars

\* The steps of a call followed lock by lock, after its first.
LockSteps ==
    \/ \E x \in todo : Lock(x)
    \/ \E x \in todo : Unlock(x)
    \/ TextGuard
    \/ TextWrapped
    \/ TextBranch
    \/ MainDone /\ TextDecide
    \/ JsonGuard
    \/ \E p \in Paths, i \in 1..MaxList : PoolStart(p, i)
    \/ \E p \in Paths : LeafEnter(p)
    \/ \E p \in Paths : LeafReturn(p)
    \/ JsonJoin
    \/ JsonReturn

\* One call of either slot on a new detector, followed lock by lock.
NextLocks ==
    \/ First /\ \E t \in SessionTexts : TextEnter(t)
    \/ First /\ \E s \in LockJsonInputs, parallel \in BOOLEAN : JsonEnter(s, parallel)
    \/ LockSteps

\* A thread that can take a step takes one: the threads of the caller and
\* of the pools are scheduled by the operating system.
SpecLocks == Init /\ [][NextLocks]_vars /\ WF_vars(LockSteps)

\* Two calls with different inputs on a new detector, by two threads, their
\* steps in any order.
NextTwoCalls ==
    \/ \E c \in Callers, s \in SessionJsonInputs : CallJsonEnter(c, s)
    \/ \E c \in Callers : CallJsonTraverse(c)
    \/ \E c \in Callers : CallJsonDecide(c)
    \/ \E c \in Callers, t \in SessionTexts : CallTextEnter(c, t)
    \/ \E c \in Callers : CallTextWrap(c)
    \/ \E c \in Callers : CallTextDecide(c)
    \/ \E c \in Callers : CallRevertReturn(c)

SpecTwoCalls == Init /\ [][NextTwoCalls]_vars

(***************************************************************************)
(* Properties                                                              *)
(***************************************************************************)

\* A detection call has returned or raised.
TextDone == op.name = "text" /\ pc = "idle"
JsonDone == op.name = "json" /\ pc = "idle"

\* The input of the call is over the size cap.
OversizeText == op.name = "text" /\ CharLen(op.input) > MAX_INPUT_SIZE
OversizeJson ==
    op.name = "json" /\ JsonLen(op.input.tree, op.input.compact) > MAX_INPUT_SIZE
Oversize == OversizeText \/ OversizeJson

\* A detectPythonCodeInJson call on a valid document within the cap has
\* returned.
JsonReturned == JsonDone /\ ~OversizeJson /\ ret.kind = "return"

HasMarker(text) == Range(text) \cap {"<PythonCode>", "</PythonCode>"} # {}

\* The score of each block of a text.
BlockScores(text) == ScoresOf(splitlines(text, TRUE), _form_code_blocks(text))

\* mean < thr and mean >= thr for a sequence of integer scores
MeanOf(scores) == Mean([k \in 1..Len(scores) |-> Rat(scores[k], 1)])
MeanBelow(scores, thr) == MeanOf(scores).num < thr * MeanOf(scores).den
SomeAtLeast(scores, thr) == \E k \in 1..Len(scores) : scores[k] >= thr
AllBelow(scores, thr) == \A k \in 1..Len(scores) : scores[k] < thr

\* What one thread returns for the document of the call.
Reference == _wrap_code_in_json(op.input.tree, JsonStartTag, JsonEndTag, threshold)

RefMeanBelow(ref, thr) == Mean(ref.confs).num < thr * Mean(ref.confs).den

\* C1 (revert rule of _wrap_code_blocks_in_text): whenever some block scores
\* at least the threshold but the mean over all the blocks is below it, the
\* engine returns the input text itself, with no marker, and did_wrap false;
\* and it never returns a text with a marker while the mean is below the
\* threshold.
C1_Engine(text, w, scores, thr) ==
    /\ (SomeAtLeast(scores, thr) /\ MeanBelow(scores, thr))
          => (w.text = text /\ ~HasMarker(w.text) /\ ~w.did_wrap)
    /\ MeanBelow(scores, thr) => (~HasMarker(w.text) /\ ~w.did_wrap)
C1_RevertRule ==
    pc = "text_decide" => C1_Engine(op.input, wrapres, BlockScores(op.input), threshold)

C1_Reverted(text, w, scores, thr) ==
    /\ Len(scores) >= 2
    /\ SomeAtLeast(scores, thr)
    /\ MeanBelow(scores, thr)
    /\ w.text = text
C1_Witness ==
    pc = "text_decide" /\ C1_Reverted(op.input, wrapres, BlockScores(op.input), threshold)

\* C2 (global revert of detectPythonCodeInJson): on a valid document within
\* the cap, if some leaf was wrapped but the mean of the collected
\* confidences is below the threshold the call returns the input string
\* itself and python_detected_in_json is false; otherwise, if a leaf changed,
\* it returns the serialization of the new tree.
C2_Return(input, ref, thr) ==
    IF ref.did_wrap /\ RefMeanBelow(ref, thr)
    THEN ret.value = input /\ ~py_json
    ELSE ref.obj # input.tree => ret.value = json_dumps(ref.obj)
C2_GlobalRevert == JsonReturned => C2_Return(op.input, Reference, threshold)

C2_Reverted(input, ref, thr) ==
    /\ ref.did_wrap
    /\ RefMeanBelow(ref, thr)
    /\ input.compact
    /\ ret.value = input
C2_Witness == JsonReturned /\ C2_Reverted(op.input, Reference, threshold)

\* Every line of the text fails is_line_code_like.
NoCodeLine(text) ==
    \A line \in Range(splitlines(text, TRUE)) : ~is_line_code_like(line)

\* C3 (no-op path): for a text with no code-like line and no dangerous
\* pattern, at any threshold and after any earlier calls, detectPythonInString
\* returns the text and dangerous_code_detected is false after the call.
C3_NoOpPath ==
    (TextDone /\ NoCodeLine(op.input) /\ ~_contains_dangerous_pattern(op.input))
        => (ret = [kind |-> "return", value |-> op.input] /\ ~dangerous)

C3_Witness ==
    /\ TextDone
    /\ NoCodeLine(op.input)
    /\ ~_contains_dangerous_pattern(op.input)
    /\ op.before.dangerous
    /\ ret.value = op.input
    /\ ~dangerous

\* C4 (danger whatever the wrap outcome): after detectPythonInString on an
\* input within the cap, dangerous_code_detected is true whenever the
\* dangerous pattern matches the input.
C4_DangerFlagged ==
    (TextDone /\ ~OversizeText /\ _contains_dangerous_pattern(op.input)) => dangerous

\* The lists of the document of the call.
ListPaths ==
    {p \in PathsOf(op.input.tree, <<>>) : NodeAt(op.input.tree, p).type = "list"}

\* C5 (order under concurrency): after a call with parallel = True that did
\* not revert, every list of the returned document has the length of the
\* input list and holds at index i what processing the input's element i
\* gives, in whatever order the pool's workers finished.
C5_List(src, out, thr) ==
    /\ out.type = "list"
    /\ Len(out.items) = Len(src.items)
    /\ \A i \in 1..Len(src.items) :
          out.items[i] = _wrap_code_in_json(src.items[i], JsonStartTag, JsonEndTag, thr).obj
C5_OrderPreserved ==
    (JsonReturned /\ op.parallel /\ emitted = <<>>)
        => \A p \in ListPaths :
              C5_List(NodeAt(op.input.tree, p), NodeAt(ret.value.tree, p), threshold)

C5_OutOfOrder(p, out) ==
    /\ Len(out.items) = 3
    /\ FinishTime(p, 2) < FinishTime(p, 1)
    /\ out.items[1] # out.items[2]
    /\ out.items[1] # NodeAt(op.input.tree, p).items[1]
C5_Witness ==
    /\ JsonReturned
    /\ op.parallel
    /\ py_json
    /\ \E p \in ListPaths : C5_OutOfOrder(p, NodeAt(ret.value.tree, p))

\* C6 (size guard): a call whose input is over 5 MiB returns at once with the
\* input itself, with dangerous_code_detected false and the operation's
\* python-detected flag false, nothing parsed, scanned or emitted, whatever
\* the input holds.
C6_SizeGuard ==
    Oversize =>
        /\ pc = "idle"
        /\ ret = [kind |-> "return", value |-> op.input]
        /\ ~dangerous
        /\ op.name = "text" => ~py_str
        /\ op.name = "json" => ~py_json
        /\ wrapres = NoWrap /\ results = {} /\ started = {} /\ order = <<>>
        /\ emitted = <<>>

C6_Witness ==
    /\ OversizeText
    /\ pc = "idle"
    /\ _contains_dangerous_pattern(op.input)
    /\ ~NoCodeLine(op.input)
    /\ ret.value = op.input
    /\ ~dangerous

\* C7 as stated (oversize call leaves the flags as they were): after a call
\* whose input is over 5 MiB the three flags have the values the call found.
C7_FlagsKept ==
    Oversize =>
        /\ dangerous = op.before.dangerous
        /\ py_json = op.before.py_json
        /\ py_str = op.before.py_str

\* C7 (amended): after a call whose input is over 5 MiB,
\* dangerous_code_detected and the operation's own python-detected flag are
\* false whatever the call found in them; the other operation's flag and the
\* threshold are as the call found them.
C7_FlagsAfterOversize ==
    Oversize =>
        /\ ~dangerous
        /\ threshold = op.before.threshold
        /\ op.name = "text" => (~py_str /\ py_json = op.before.py_json)
        /\ op.name = "json" => (~py_json /\ py_str = op.before.py_str)

C7_Witness ==
    /\ OversizeJson
    /\ pc = "idle"
    /\ op.before.dangerous /\ op.before.py_json /\ op.before.py_str
    /\ ~dangerous /\ ~py_json /\ py_str

\* C8 (revert monotonicity): when the threshold is above the score of every
\* block of the text, detectPythonInString returns the text itself, with no
\* marker in it.
C8_RevertMonotone ==
    (TextDone /\ AllBelow(BlockScores(op.input), threshold))
        => (ret = [kind |-> "return", value |-> op.input] /\ ~HasMarker(ret.value))

C8_Witness ==
    /\ TextDone
    /\ ~OversizeText
    /\ Len(BlockScores(op.input)) >= 2
    /\ AllBelow(BlockScores(op.input), threshold)
    /\ ret.value = op.input

\* C9 (verbatim when unchanged): on a valid document within the cap, when
\* processing changes no leaf the call returns the input string itself and
\* python_detected_in_json is false; it returns a serialization of the new
\* tree only when some leaf's value differs from the original.
C9_Return(input, ref) ==
    /\ ref.obj = input.tree => (ret.value = input /\ ~py_json)
    /\ py_json => (ref.obj # input.tree /\ ret.value = json_dumps(ref.obj))
C9_VerbatimWhenUnchanged == JsonReturned => C9_Return(op.input, Reference)

C9_Unchanged(input, ref) ==
    /\ ref.obj = input.tree
    /\ ref.confs # <<>>
    /\ input.compact
    /\ ret.value = input
C9_Witness == JsonReturned /\ C9_Unchanged(op.input, Reference)

\* The input of the call is within the cap and is no JSON.
Malformed == op.name = "json" /\ ~OversizeJson /\ op.input.tree.type = "invalid"

\* C10 (malformed document): on an input within the cap that json.loads
\* rejects, the call raises JSONDecodeError to the caller, no leaf is
\* processed, no signal is emitted, and dangerous_code_detected is false.
C10_Malformed ==
    Malformed =>
        /\ pc = "idle"
        /\ ret = [kind |-> "raise", value |-> JSONDecodeError]
        /\ results = {} /\ started = {} /\ order = <<>>
        /\ emitted = <<>>
        /\ ~dangerous

C10_Witness ==
    /\ Malformed
    /\ op.before.dangerous
    /\ ret.kind = "raise"
    /\ ~dangerous

\* C11 (threshold within [0, 100]): in every state 0 <= threshold <= 100;
\* after a write of v the threshold is v brought into [0, 100]; a detection
\* call leaves the threshold as it found it, at each of its steps.
C11_ThresholdClamped ==
    /\ 0 <= threshold /\ threshold <= 100
    /\ op.name = "set_threshold"
          => threshold = (IF op.input < 0 THEN 0 ELSE IF op.input > 100 THEN 100 ELSE op.input)
    /\ op.name \in {"text", "json"} => threshold = op.before.threshold

C11_Witness ==
    /\ op.name = "set_threshold"
    /\ op.input > 100
    /\ threshold = 100
    /\ py_str /\ py_json

\* A step that starts a detection call, and a step inside one.
CallStarts == pc = "idle" /\ op'.name \in {"text", "json"}
CallGoesOn == pc # "idle"

\* What the steps of a call do to the flag.
C12_Step ==
    /\ CallStarts =>
          /\ ~dangerous'
          /\ wrapres' = NoWrap /\ results' = {} /\ started' = {} /\ order' = <<>>
    /\ CallGoesOn => (dangerous => dangerous')

\* The flag of a call that has returned is true only for a pattern the call
\* itself has seen.
C12_OwnFinding ==
    /\ (TextDone /\ dangerous) => _contains_dangerous_pattern(op.input)
    /\ (JsonDone /\ dangerous) => \E x \in results : x.res.danger

\* C12 (the dangerous flag is a per-call latch): the step that starts a
\* detection call leaves the flag false with nothing scanned and no worker
\* started; no later step of the call, a worker's included, takes the flag
\* from true to false; and the flag a call ends with is true only for a
\* pattern that call has seen, whatever the call before left.
C12_PerCallLatch == [][C12_Step]_vars /\ []C12_OwnFinding

C12_Witness ==
    /\ JsonDone
    /\ op.parallel
    /\ started # {}
    /\ op.before.dangerous
    /\ \E x \in results : x.res.danger
    /\ \E x \in results : ~x.res.danger /\ x.path = order[Len(order)]
    /\ dangerous

\* The notifications of the two slots, as the call emits them, lines 199-200.
StrTooLow(text) == [signal |-> "stat_str_too_low_signal", arg |-> text]
JsonTooLow(input) == [signal |-> "stat_json_too_low_signal", arg |-> input]

\* The revert rule fired on the text of the call: a block reached the
\* threshold and the mean of the blocks is below it.
TextRevertFired(scores, thr) == SomeAtLeast(scores, thr) /\ MeanBelow(scores, thr)

\* The same for the document: a leaf was wrapped and the mean is below.
JsonRevertFired(ref, thr) == ref.did_wrap /\ RefMeanBelow(ref, thr)

\* The document half: what detectPythonCodeInJson has emitted when it returns.
C13_JsonNotified ==
    JsonReturned =>
          emitted = (IF JsonRevertFired(Reference, threshold)
                     THEN <<JsonTooLow(op.input)>> ELSE <<>>)

\* C13 (revert notification): a call of either slot whose wrapping the revert
\* rule discards has emitted the too-low notification with its input, once,
\* when it returns; a call where the rule did not fire has emitted nothing.
C13_RevertNotified ==
    /\ (TextDone /\ ~OversizeText) =>
          emitted = (IF TextRevertFired(BlockScores(op.input), threshold)
                     THEN <<StrTooLow(op.input)>> ELSE <<>>)
    /\ C13_JsonNotified

\* A thread about to enter a locked section does not hold the mutex.
NoSelfRequest ==
    \A x \in todo : (~x.held /\ x.secs # <<>>) => ThreadOf(x.path) \notin mutex

\* The nesting depth of the lists of a document.
RECURSIVE Depth(_)
Depth(node) ==
    IF node.type = "list" /\ Len(node.items) > 0
    THEN 1 + Depth(node.items[1])
    ELSE 0

\* C14 (every call runs to completion): under fair scheduling a call that
\* has started returns or raises, whatever the nesting of its lists and with
\* pools at every level; a held mutex is released; and no thread asks for
\* the mutex while holding it.
C14_RunsToCompletion ==
    /\ (pc # "idle") ~> (pc = "idle")
    /\ (mutex # {}) ~> (mutex = {})
    /\ []NoSelfRequest

C14_Witness ==
    /\ JsonDone
    /\ ret.kind = "return"
    /\ op.parallel
    /\ Depth(Tree) > _max_workers
    /\ \E q \in started : Len(q) > _max_workers
    /\ Complete(Tree, <<>>)
    /\ dangerous

\* The ranges are within 0..n-1, each start at or before its end, each end
\* before the next start, and each first line code-like.
BlockRanges(lines, blocks) ==
    /\ \A k \in 1..Len(blocks) :
          /\ 0 <= blocks[k][1]
          /\ blocks[k][1] <= blocks[k][2]
          /\ blocks[k][2] <= Len(lines) - 1
          /\ is_line_code_like(lines[blocks[k][1] + 1])
    /\ \A k \in 1..(Len(blocks) - 1) :
          /\ blocks[k][1] < blocks[k + 1][1]
          /\ blocks[k][2] < blocks[k + 1][1]

\* C15 (block ranges): for the lines of every input text, the ranges of
\* _form_code_blocks lie within 0..n-1 with start <= end, are in strictly
\* increasing order of start, do not overlap, and each starts at a code-like
\* line.
C15_BlockRanges ==
    op.name = "text" =>
        BlockRanges(splitlines(op.input, TRUE), _form_code_blocks(op.input))

C15_Witness ==
    /\ TextDone
    /\ ~OversizeText
    /\ Len(_form_code_blocks(op.input)) = 2
    /\ Len(splitlines(op.input, TRUE)) > 3
    /\ BlockRanges(splitlines(op.input, TRUE), _form_code_blocks(op.input))

\* Line i (0-based) is code-like; it is blank after trimming; it begins with
\* a space or a tab; it is one a block extends over.
CodeAt(lines, i) == is_line_code_like(lines[i + 1])
BlankAt(lines, i) == strip(lines[i + 1]) = <<>>
IndentedAt(lines, i) == lines[i + 1] # <<>> /\ lines[i + 1][1] \in {"SP", "TAB"}
ContinuesAt(lines, i) == CodeAt(lines, i) \/ BlankAt(lines, i) \/ IndentedAt(lines, i)

\* Line i is met InsideBlock: a code-like line at or before it, and only
\* continuing lines from there to i.
InsideAt(lines, i) ==
    \E s \in 0..i : CodeAt(lines, s) /\ \A j \in (s + 1)..i : ContinuesAt(lines, j)

\* The blocks are the runs of lines met InsideBlock: each opens at a
\* code-like line met Outside, extends over continuing lines only, and ends
\* before the first line that does not continue it or at the last line;
\* every code-like line is in a block and a line separates two blocks.
ContinuationRules(lines, blocks) ==
    /\ \A k \in 1..Len(blocks) :
          /\ CodeAt(lines, blocks[k][1])
          /\ blocks[k][1] = 0 \/ ~InsideAt(lines, blocks[k][1] - 1)
          /\ \A j \in (blocks[k][1] + 1)..blocks[k][2] : ContinuesAt(lines, j)
          /\ blocks[k][2] = Len(lines) - 1 \/ ~ContinuesAt(lines, blocks[k][2] + 1)
    /\ \A k \in 1..(Len(blocks) - 1) : blocks[k][2] + 1 < blocks[k + 1][1]
    /\ \A i \in 0..(Len(lines) - 1) :
          InsideAt(lines, i) <=> \E k \in 1..Len(blocks) : blocks[k][1] <= i /\ i <= blocks[k][2]

C16_Cases(lines, blocks) ==
    /\ \E k \in 1..Len(blocks) :
          /\ blocks[k][1] = blocks[k][2]
          /\ blocks[k][2] < Len(lines) - 1
    /\ \E k \in 1..Len(blocks) :
          /\ blocks[k][1] < blocks[k][2]
          /\ blocks[k][2] = Len(lines) - 1
          /\ BlankAt(lines, Len(lines) - 1)
          /\ ~CodeAt(lines, Len(lines) - 1)

EmittedBlock(lines, blocks, scores, k, thr) ==
    IF scores[k] >= thr
    THEN TextStartTag \o BlockStr(lines, blocks, k) \o TextEndTag
    ELSE BlockStr(lines, blocks, k)

\* The text with each block so emitted, in input order, the lines between
\* the blocks and after the last as they are.
EmittedText(lines, blocks, scores, thr) ==
    Concat([k \in 1..Len(blocks) |->
              PrefixOf(lines, blocks, k) \o EmittedBlock(lines, blocks, scores, k, thr)])
      \o TailOf(lines, blocks)

\* C17 (per-block wrap decision): a detectPythonInString call that the
\* revert rule does not undo returns the input with each block whose score
\* is at least the threshold (a block scoring 80 at threshold 80 included)
\* between the markers and every other block unmodified, in input order.
C17_PerBlockDecision ==
    (TextDone /\ ~OversizeText /\ ~TextRevertFired(BlockScores(op.input), threshold))
        => ret.value = EmittedText(splitlines(op.input, TRUE), _form_code_blocks(op.input),
                                   BlockScores(op.input), threshold)

\* Some blocks wrapped and others not, in a call that is not reverted.
C17_Mixed(scores, thr) ==
    /\ ~TextRevertFired(scores, thr)
    /\ \E k \in 1..Len(scores) : scores[k] >= thr
    /\ \E k \in 1..Len(scores) : scores[k] < thr /\ scores[k] > 0

C17_Witness ==
    /\ TextDone
    /\ ~OversizeText
    /\ C17_Mixed(BlockScores(op.input), threshold)
    /\ HasMarker(ret.value)
    /\ py_str

\* A string without the markers put in it.
NotMarker(a) == a \notin {"<PythonCode>", "</PythonCode>"}
RemoveMarkers(v) == SelectSeq(v, NotMarker)

\* C18 (the escaping convention is kept): every string leaf that a
\* detectPythonCodeInJson call wrapped differs from the original by the
\* markers alone: with the markers removed it is the original string, its
\* line breaks literal or escaped as they were.
C18_EscapingKept ==
    op.name = "json" =>
        \A x \in results :
            x.res.did_wrap => RemoveMarkers(x.res.obj.val) = NodeAt(Tree, x.path).val

RECURSIVE SameShape(_, _)
\* Two trees that differ in the values of their strings at most: the same
\* keys in the same order, lists of the same length, the same scalars.
SameShape(a, b) ==
    /\ a.type = b.type
    /\ CASE a.type = "dict" ->
              /\ a.keys = b.keys
              /\ Len(a.items) = Len(b.items)
              /\ \A k \in 1..Len(a.items) : SameShape(a.items[k], b.items[k])
         [] a.type = "list" ->
              /\ Len(a.items) = Len(b.items)
              /\ \A k \in 1..Len(a.items) : SameShape(a.items[k], b.items[k])
         [] a.type = "str" -> TRUE
         [] OTHER -> a = b

\* The string leaves of the document of the call, by their results.
StringResults == {x \in results : NodeAt(Tree, x.path).type = "str"}

\* C19 (the traversal changes string values only): the tree a
\* detectPythonCodeInJson call returns has the shape of the input, keys and
\* scalars as they were; a scalar's call returns it with no confidence, no
\* wrap and no flag; the confidences are those of the strings; and the flag
\* after the call is true only for a pattern in a string value, never for
\* one in a key.
C19_OnlyStringLeaves ==
    JsonReturned =>
        /\ SameShape(Tree, Merge(Tree, <<>>).obj)
        /\ SameShape(Tree, json_loads(ret.value))
        /\ \A x \in results \ StringResults : x.res = Unchanged(NodeAt(Tree, x.path))
        /\ Len(Merge(Tree, <<>>).confs) <= Cardinality(StringResults)
        /\ dangerous = (\E x \in StringResults : _contains_dangerous_pattern(
                            _interpret_escaped_newlines(NodeAt(Tree, x.path).val)))

\* A dict with a key that reads as dangerous code, a string value that gets
\* wrapped and a scalar.
C19_Witness ==
    /\ JsonReturned
    /\ Tree.type = "dict"
    /\ \E k \in 1..Len(Tree.keys) :
          _contains_dangerous_pattern(Tree.keys[k]) /\ might_contain_python_code(Tree.keys[k])
    /\ \E x \in StringResults : x.res.did_wrap
    /\ \E x \in results : NodeAt(Tree, x.path).type = "num"
    /\ ret.value # op.input
    /\ json_loads(ret.value).keys = Tree.keys
    /\ ~dangerous

\* What detectPythonCodeInJson returns when one thread does the traversal.
SequentialOutcome ==
    JsonOutcome(Reference.did_wrap, Reference.changed, Mean(Reference.confs), threshold)
SequentialValue ==
    CASE SequentialOutcome = "revert" -> last_json
      [] SequentialOutcome = "verbatim" -> op.input
      [] OTHER -> json_dumps(Reference.obj)

\* C20 (concurrent traversal is sequential traversal): at a threshold set
\* before the call, in whatever order the pool's workers pick up and finish
\* the items, a call with parallel = True ends as the traversal by one thread
\* does: every leaf's result is that of processing the leaf alone, the merged
\* tree, confidence list, did_wrap and changed are those of one thread, and
\* so are the returned text, the signal and dangerous_code_detected.
C20_SameAsSequential ==
    JsonReturned =>
        /\ \A x \in results :
              x.res = ProcessLeaf(NodeAt(Tree, x.path), JsonStartTag, JsonEndTag, threshold)
        /\ Merge(Tree, <<>>) = Reference
        /\ ret.value = SequentialValue
        /\ (emitted # <<>>) = (SequentialOutcome = "revert")
        /\ py_json = (SequentialOutcome = "dumps")
        /\ dangerous = Reference.danger

\* A parallel call on a list whose second item returned before its first,
\* the two with different confidences, one of them dangerous.
C20_Raced(p) ==
    /\ IsPool(NodeAt(Tree, p))
    /\ FinishTime(p, 2) < FinishTime(p, 1)
    /\ Merge(NodeAt(Tree, p).items[1], Append(p, 1)).confs
           # Merge(NodeAt(Tree, p).items[2], Append(p, 2)).confs
    /\ Merge(NodeAt(Tree, p).items[1], Append(p, 1)).danger
           # Merge(NodeAt(Tree, p).items[2], Append(p, 2)).danger
C20_Witness ==
    /\ JsonReturned
    /\ op.parallel
    /\ py_json
    /\ dangerous
    /\ \E p \in ListPaths : C20_Raced(p)

\* The scores _calculate_confidence_for_block gives, as confidences.
BlockScoreValues == {Rat(0, 1), Rat(80, 1), Rat(100, 1)}

\* The blocks the segmenter finds in the string value of a leaf.
LeafBlocks(node) == _form_code_blocks(_interpret_escaped_newlines(node.val))

\* C21 (one confidence per block): every entry of the confidence list a
\* detectPythonCodeInJson call averages is 0, 80 or 100, the score of one
\* block, and a string leaf in which _form_code_blocks finds no block adds
\* no entry to the list.
C21_OneScorePerEntry ==
    JsonReturned =>
        /\ \A k \in 1..Len(Merge(Tree, <<>>).confs) :
              Merge(Tree, <<>>).confs[k] \in BlockScoreValues
        /\ \A x \in StringResults :
              LeafBlocks(NodeAt(Tree, x.path)) = <<>> => x.res.confs = <<>>

\* v begins with the marker.
StartsWith(v, tag) == Len(v) >= Len(tag) /\ SubSeq(v, 1, Len(tag)) = tag

RECURSIVE DeleteTags(_)
\* A returned text with the start and end markers of detectPythonInString
\* deleted.
DeleteTags(v) ==
    IF v = <<>> THEN <<>>
    ELSE IF StartsWith(v, TextStartTag)
    THEN DeleteTags(SubSeq(v, Len(TextStartTag) + 1, Len(v)))
    ELSE IF StartsWith(v, TextEndTag)
    THEN DeleteTags(SubSeq(v, Len(TextEndTag) + 1, Len(v)))
    ELSE <<Head(v)>> \o DeleteTags(Tail(v))

\* How many times the marker is in the text.
TagCount(v, tag) ==
    Cardinality({i \in 1..Len(v) : StartsWith(SubSeq(v, i, Len(v)), tag)})

\* How many blocks score at least the threshold.
NumAtLeast(scores, thr) == Cardinality({k \in 1..Len(scores) : scores[k] >= thr})

\* The text is the input with as many start markers as end markers put in
\* and nothing else added, left out or moved.
MarkersOnly(out, input) ==
    /\ DeleteTags(out) = input
    /\ TagCount(out, TextStartTag) = TagCount(out, TextEndTag)

\* _wrap_code_blocks_in_text has returned in a detectPythonInString call.
TextWrapReturned == op.name = "text" /\ ~OversizeText /\ pc \in {"text_decide", "idle"}

\* C22 as stated (nothing lost, and one pair of markers per block at or above
\* the threshold): the text _wrap_code_blocks_in_text returns, and the text
\* detectPythonInString returns, is the input with markers put in, and the
\* number of start markers is the number of blocks scoring at least the
\* threshold.
C22_MarkerPerBlock ==
    /\ TextWrapReturned =>
          /\ MarkersOnly(wrapres.text, op.input)
          /\ TagCount(wrapres.text, TextStartTag) = NumAtLeast(BlockScores(op.input), threshold)
    /\ (TextDone /\ ~OversizeText) =>
          /\ MarkersOnly(ret.value, op.input)
          /\ TagCount(ret.value, TextStartTag) = NumAtLeast(BlockScores(op.input), threshold)

\* How many pairs of markers go in: none when the revert rule fires, one for
\* each block scoring at least the threshold otherwise.
PairsPutIn(scores, thr) ==
    IF TextRevertFired(scores, thr) THEN 0 ELSE NumAtLeast(scores, thr)

\* C22 (nothing lost, and one pair of markers per wrapped block): the text
\* _wrap_code_blocks_in_text returns, and the text detectPythonInString
\* returns, is the input with markers put in; deleting them gives the input
\* exactly; there are as many start markers as end markers, none when the
\* revert rule fires and one for each block scoring at least the threshold
\* otherwise, the start marker right before the block's first line and the
\* end marker right after its last.
C22_NothingLost ==
    /\ TextWrapReturned =>
          /\ MarkersOnly(wrapres.text, op.input)
          /\ TagCount(wrapres.text, TextStartTag) = PairsPutIn(BlockScores(op.input), threshold)
    /\ (TextDone /\ ~OversizeText) =>
          /\ MarkersOnly(ret.value, op.input)
          /\ TagCount(ret.value, TextStartTag) = PairsPutIn(BlockScores(op.input), threshold)
          /\ ~TextRevertFired(BlockScores(op.input), threshold)
                => ret.value = EmittedText(splitlines(op.input, TRUE),
                                           _form_code_blocks(op.input),
                                           BlockScores(op.input), threshold)

\* A returned text with two wrapped blocks, an unwrapped line between them
\* and lines after the last block.
C22_Witness ==
    /\ TextDone
    /\ ~OversizeText
    /\ TagCount(ret.value, TextStartTag) = 2
    /\ TagCount(ret.value, TextEndTag) = 2
    /\ TailOf(splitlines(op.input, TRUE), _form_code_blocks(op.input)) # <<>>
    /\ Len(ret.value) = Len(op.input) + 2 * Len(TextStartTag) + 2 * Len(TextEndTag)
    /\ DeleteTags(ret.value) = op.input

RECURSIVE ReplaceAt(_, _, _)
\* The tree with the node at path p replaced.
ReplaceAt(tree, p, node) ==
    IF p = <<>> THEN node
    ELSE [tree EXCEPT !.items[Head(p)] = ReplaceAt(tree.items[Head(p)], Tail(p), node)]

\* The document detectPythonCodeInJson returns for a parsed input, as a tree:
\* the new tree when it serializes one, the input's otherwise.
ReturnedTree(tree, thr) ==
    LET r == _wrap_code_in_json(tree, JsonStartTag, JsonEndTag, thr)
    IN  IF JsonOutcome(r.did_wrap, r.changed, Mean(r.confs), thr) = "dumps"
        THEN r.obj
        ELSE tree

\* The string leaves of the document with a dangerous pattern and no
\* code-like line.
DangerOnlyLeaves ==
    {p \in PathsOf(Tree, <<>>) :
        /\ NodeAt(Tree, p).type = "str"
        /\ NoCodeLine(_interpret_escaped_newlines(NodeAt(Tree, p).val))
        /\ _contains_dangerous_pattern(_interpret_escaped_newlines(NodeAt(Tree, p).val))}

\* The document of the call with the leaf at p replaced by prose that has no
\* code-like line and no dangerous pattern.
Twin(p) == ReplaceAt(Tree, p, Str(ProseString))

\* The other leaves of the two returned documents are the same.
SameElsewhere(a, b, p) ==
    \A q \in PathsOf(Tree, <<>>) \ {p} :
        ~IsContainer(NodeAt(Tree, q)) => NodeAt(a, q) = NodeAt(b, q)

\* C23 (a dangerous pattern changes the flag only): when the document of a
\* detectPythonCodeInJson call has a string leaf with a dangerous pattern and
\* no code-like line, every other leaf of the returned document is what the
\* call returns for it, at the same threshold, on the document that has
\* harmless prose in that leaf's place.
C23_DangerOnlyFlags ==
    JsonReturned =>
        \A p \in DangerOnlyLeaves :
            [tree |-> Twin(p), compact |-> op.input.compact] \in JsonInputs
                => SameElsewhere(json_loads(ret.value), ReturnedTree(Twin(p), threshold), p)

\* What a call may return of its own: its input, or its input with the
\* markers put in.
OwnOutputs(call) ==
    IF call.kind = "text"
    THEN {call.input,
          _wrap_code_blocks_in_text(call.input, TextStartTag, TextEndTag, threshold).text}
    ELSE IF json_loads(call.input) = JSONDecodeError THEN {call.input}
    ELSE {call.input,
          json_dumps(_wrap_code_in_json(json_loads(call.input), JsonStartTag, JsonEndTag,
                                        threshold).obj)}

\* C24 (no text of another call): of two calls that run at the same time on
\* one detector with different inputs, each that returns, returns its own
\* input or its own input with markers put in, and every too-low
\* notification it emits carries its own input.
C24_OwnTextOnly ==
    \A c \in Callers :
        /\ \A k \in 1..Len(calls[c].sent) : calls[c].sent[k] = calls[c].input
        /\ (calls[c].pc = "done" /\ calls[c].ret.kind = "return")
              => calls[c].ret.value \in OwnOutputs(calls[c])

=============================================================================
